---- MODULE Spec2Model ----
(***************************************************************************)
(* Semantic chunking engine: context windows, embedding batch, cosine      *)
(* distance profile, percentile threshold, grouping and short-chunk merge. *)
(*                                                                         *)
(* Conventions.                                                            *)
(*  - A JavaScript string that the code takes apart or joins (sentence,    *)
(*    combined_sentence, chunk content) is a sequence of one-character     *)
(*    strings; a string the code only copies or interpolates (times) is a  *)
(*    TLA+ string.                                                         *)
(*  - An optional field is <<>> when undefined and <<v>> when it holds v.  *)
(*  - JavaScript arrays are 0-based, TLA+ sequences 1-based: arr[k] of the *)
(*    code is arr[k+1] here.  Index fields keep the code's 0-based values. *)
(*  - Distances are exact multiples of 1/Scale; thresholds are exact       *)
(*    multiples of 1/(Scale*100).                                          *)
(***************************************************************************)
EXTENDS Integers, Sequences, FiniteSets, TLC

VARIABLES
    call,                 \* which public operation the client invoked
    pc,                   \* position inside that operation
    config,               \* [bufferSize, percentileThreshold] of the call
    textCorpus,           \* optional: the loaded text (sequence of blocks)
    batch,                \* optional: argument of the embedDocuments call
    embedCalls,           \* number of embedDocuments calls issued
    sentenceObjectArray,  \* the unit sequence the current stage works on
    distances,            \* distance array D of the distance stage
    threshold,            \* optional: breakpointDistanceThreshold * 100
    shiftIndices,         \* significantShiftIndices / shiftIndices argument
    chunks,               \* raw chunks built by the grouping forEach
    mergedChunks,         \* output list of the merge pass
    i,                    \* loop index of the merge pass
    result,               \* optional: value the call returned
    error,                \* optional: error the call threw
    embedState,           \* state of the embedDocuments promise
    held,                 \* per stage run: the caller's sequence before and after
    calls,                \* the processing calls in progress on one service
    providerVectors       \* optional: the vectors embedDocuments resolved with

vars == <<call, pc, config, textCorpus, batch, embedCalls, sentenceObjectArray,
          distances, threshold, shiftIndices, chunks, mergedChunks, i,
          result, error, embedState, held, calls,
          providerVectors>>

----------------------------------------------------------------------------
(* Bounds of the exploration *)

MaxUnits == 5        \* units of a direct groupSentencesIntoChunks call
MaxDistances == 4    \* length of a distance array of the threshold stage
MaxBlocks == 3       \* blank-line separated blocks of a loaded text
MaxSentences == 3    \* sentences of a direct structureSentences call
MaxRawBlocks == 3    \* blocks of a direct parseSubtitles call
MaxConcurrentBlocks == 3  \* blocks of a text of two interleaved calls
MaxProfileUnits == 4 \* units of a direct distance-stage call
MaxAttachUnits == 3  \* units of a direct generateAndAttachEmbeddings call

----------------------------------------------------------------------------
(* Optional values and strings *)

None == <<>>
Some(v) == <<v>>
IsSome(o) == o # <<>>

SP == " "

\* JavaScript truthiness of an optional string: undefined and "" are falsy.
TruthyStr(o) == IsSome(o) /\ o[1] # ""

\* Array.prototype.join on an array of strings.
RECURSIVE Join(_, _)
Join(strs, sep) ==
    IF Len(strs) = 0 THEN <<>>
    ELSE IF Len(strs) = 1 THEN strs[1]
    ELSE strs[1] \o sep \o Join(Tail(strs), sep)

\* Array.prototype.slice(start, end) for non-negative start and end.
Slice(arr, start, end) ==
    LET from == IF start > Len(arr) THEN Len(arr) ELSE start
        to   == IF end > Len(arr) THEN Len(arr) ELSE end
    IN  IF to <= from THEN <<>> ELSE SubSeq(arr, from + 1, to)

\* `${startTime} --> ${endTime}`
TimestampOf(startTime, endTime) == startTime \o " --> " \o endTime

----------------------------------------------------------------------------
(* SemanticAnalyzer.mergeTwoChunks *)

\* Variant: the merged end index is taken from the earlier chunk.
mergeTwoChunks_endOfEarlier(chunk1, chunk2) ==
    LET startTime == chunk1.metadata.startTime
        endTime == chunk2.metadata.endTime
    IN  [content |-> chunk1.content \o <<SP>> \o chunk2.content,
         metadata |->
            [subtitleIndex |-> chunk1.metadata.subtitleIndex,
             startTime |-> startTime,
             endTime |-> endTime,
             sentenceCount |-> chunk1.metadata.sentenceCount
                               + chunk2.metadata.sentenceCount,
             startSentenceIndex |-> chunk1.metadata.startSentenceIndex,
             endSentenceIndex |-> chunk1.metadata.endSentenceIndex,
             timestamp |-> IF TruthyStr(startTime) /\ TruthyStr(endTime)
                           THEN Some(TimestampOf(startTime[1], endTime[1]))
                           ELSE None]]

\* Variant: the merged sentence count is the earlier chunk's count.
mergeTwoChunks_countOfEarlier(chunk1, chunk2) ==
    LET startTime == chunk1.metadata.startTime
        endTime == chunk2.metadata.endTime
    IN  [content |-> chunk1.content \o <<SP>> \o chunk2.content,
         metadata |->
            [subtitleIndex |-> chunk1.metadata.subtitleIndex,
             startTime |-> startTime,
             endTime |-> endTime,
             sentenceCount |-> chunk1.metadata.sentenceCount,
             startSentenceIndex |-> chunk1.metadata.startSentenceIndex,
             endSentenceIndex |-> chunk2.metadata.endSentenceIndex,
             timestamp |-> IF TruthyStr(startTime) /\ TruthyStr(endTime)
                           THEN Some(TimestampOf(startTime[1], endTime[1]))
                           ELSE None]]

\* Variant: the earlier chunk's timestamp is carried over unchanged.
mergeTwoChunks_timestampOfEarlier(chunk1, chunk2) ==
    LET startTime == chunk1.metadata.startTime
        endTime == chunk2.metadata.endTime
    IN  [content |-> chunk1.content \o <<SP>> \o chunk2.content,
         metadata |->
            [subtitleIndex |-> chunk1.metadata.subtitleIndex,
             startTime |-> startTime,
             endTime |-> endTime,
             sentenceCount |-> chunk1.metadata.sentenceCount
                               + chunk2.metadata.sentenceCount,
             startSentenceIndex |-> chunk1.metadata.startSentenceIndex,
             endSentenceIndex |-> chunk2.metadata.endSentenceIndex,
             timestamp |-> chunk1.metadata.timestamp]]

\* Variant: the merged end time is taken from the earlier chunk.
mergeTwoChunks_endTimeOfEarlier(chunk1, chunk2) ==
    LET startTime == chunk1.metadata.startTime
        endTime == chunk1.metadata.endTime
    IN  [content |-> chunk1.content \o <<SP>> \o chunk2.content,
         metadata |->
            [subtitleIndex |-> chunk1.metadata.subtitleIndex,
             startTime |-> startTime,
             endTime |-> endTime,
             sentenceCount |-> chunk1.metadata.sentenceCount
                               + chunk2.metadata.sentenceCount,
             startSentenceIndex |-> chunk1.metadata.startSentenceIndex,
             endSentenceIndex |-> chunk2.metadata.endSentenceIndex,
             timestamp |-> IF TruthyStr(startTime) /\ TruthyStr(endTime)
                           THEN Some(TimestampOf(startTime[1], endTime[1]))
                           ELSE None]]

\* Variant: the contents are concatenated without a separating space.
mergeTwoChunks_noSeparator(chunk1, chunk2) ==
    LET startTime == chunk1.metadata.startTime
        endTime == chunk2.metadata.endTime
    IN  [content |-> chunk1.content \o chunk2.content,
         metadata |->
            [subtitleIndex |-> chunk1.metadata.subtitleIndex,
             startTime |-> startTime,
             endTime |-> endTime,
             sentenceCount |-> chunk1.metadata.sentenceCount
                               + chunk2.metadata.sentenceCount,
             startSentenceIndex |-> chunk1.metadata.startSentenceIndex,
             endSentenceIndex |-> chunk2.metadata.endSentenceIndex,
             timestamp |-> IF TruthyStr(startTime) /\ TruthyStr(endTime)
                           THEN Some(TimestampOf(startTime[1], endTime[1]))
                           ELSE None]]

\* Variant: the merged end index is computed from the start index and the
\* summed count, without the -1.
mergeTwoChunks_endFromCount(chunk1, chunk2) ==
    LET c1 == chunk1.metadata.sentenceCount
        c2 == chunk2.metadata.sentenceCount
        startTime == chunk1.metadata.startTime
        endTime == chunk2.metadata.endTime
    IN  [content |-> chunk1.content \o <<SP>> \o chunk2.content,
         metadata |->
            [subtitleIndex |-> chunk1.metadata.subtitleIndex,
             startTime |-> startTime,
             endTime |-> endTime,
             sentenceCount |-> c1 + c2,
             startSentenceIndex |-> chunk1.metadata.startSentenceIndex,
             endSentenceIndex |->
                 chunk1.metadata.startSentenceIndex + c1 + c2,
             timestamp |-> IF TruthyStr(startTime) /\ TruthyStr(endTime)
                           THEN Some(TimestampOf(startTime[1], endTime[1]))
                           ELSE None]]

mergeTwoChunks(chunk1, chunk2) ==
    LET c1 == chunk1.metadata.sentenceCount
        c2 == chunk2.metadata.sentenceCount
        startTime == chunk1.metadata.startTime
        endTime == chunk2.metadata.endTime
    IN  [content |-> chunk1.content \o <<SP>> \o chunk2.content,
         metadata |->
            [subtitleIndex |-> chunk1.metadata.subtitleIndex,
             startTime |-> startTime,
             endTime |-> endTime,
             sentenceCount |-> c1 + c2,
             startSentenceIndex |-> chunk1.metadata.startSentenceIndex,
             endSentenceIndex |-> chunk2.metadata.endSentenceIndex,
             timestamp |-> IF TruthyStr(startTime) /\ TruthyStr(endTime)
                           THEN Some(TimestampOf(startTime[1], endTime[1]))
                           ELSE None]]

----------------------------------------------------------------------------
(* SemanticAnalyzer.mergeShortChunks *)

minSentencesDefault == 2

\* Variant: a short chunk without any neighbour is discarded.
mergeShortChunksStep_dropOnly(cs, merged, k, minSentences) ==
    LET currentChunk == cs[k + 1]
        sc == currentChunk.metadata.sentenceCount
        sentenceCount == IF sc = 0 THEN 1 ELSE sc
        hasPrevious == Len(merged) > 0
        hasNext == k + 1 < Len(cs)
    IN  IF sentenceCount >= minSentences
        THEN [mergedChunks |-> Append(merged, currentChunk), i |-> k + 1]
        ELSE IF hasPrevious
        THEN [mergedChunks |->
                 [merged EXCEPT ![Len(merged)] =
                     mergeTwoChunks(merged[Len(merged)], currentChunk)],
              i |-> k + 1]
        ELSE IF hasNext
        THEN [mergedChunks |->
                 Append(merged, mergeTwoChunks(currentChunk, cs[k + 2])),
              i |-> k + 2]
        ELSE [mergedChunks |-> merged, i |-> k + 1]

\* Variant: a short chunk with both neighbours is kept as it is.
mergeShortChunksStep_keepMiddle(cs, merged, k, minSentences) ==
    LET currentChunk == cs[k + 1]
        sc == currentChunk.metadata.sentenceCount
        sentenceCount == IF sc = 0 THEN 1 ELSE sc
        hasPrevious == Len(merged) > 0
        hasNext == k + 1 < Len(cs)
    IN  IF sentenceCount >= minSentences
        THEN [mergedChunks |-> Append(merged, currentChunk), i |-> k + 1]
        ELSE IF hasPrevious /\ ~hasNext
        THEN [mergedChunks |->
                 [merged EXCEPT ![Len(merged)] =
                     mergeTwoChunks(merged[Len(merged)], currentChunk)],
              i |-> k + 1]
        ELSE IF ~hasPrevious /\ hasNext
        THEN [mergedChunks |->
                 Append(merged, mergeTwoChunks(currentChunk, cs[k + 2])),
              i |-> k + 2]
        ELSE [mergedChunks |-> Append(merged, currentChunk), i |-> k + 1]

\* Variant: a short chunk with both neighbours is merged with the next one.
mergeShortChunksStep_preferNext(cs, merged, k, minSentences) ==
    LET currentChunk == cs[k + 1]
        sc == currentChunk.metadata.sentenceCount
        sentenceCount == IF sc = 0 THEN 1 ELSE sc
        hasPrevious == Len(merged) > 0
        hasNext == k + 1 < Len(cs)
    IN  IF sentenceCount >= minSentences
        THEN [mergedChunks |-> Append(merged, currentChunk), i |-> k + 1]
        ELSE IF hasNext
        THEN [mergedChunks |->
                 Append(merged, mergeTwoChunks(currentChunk, cs[k + 2])),
              i |-> k + 2]
        ELSE IF hasPrevious
        THEN [mergedChunks |->
                 [merged EXCEPT ![Len(merged)] =
                     mergeTwoChunks(merged[Len(merged)], currentChunk)],
              i |-> k + 1]
        ELSE [mergedChunks |-> Append(merged, currentChunk), i |-> k + 1]

\* Variant: after a merge with the next raw chunk the pass advances by one
\* only, and visits the next raw chunk again.
mergeShortChunksStep_revisitNext(cs, merged, k, minSentences) ==
    LET currentChunk == cs[k + 1]
        sc == currentChunk.metadata.sentenceCount
        sentenceCount == IF sc = 0 THEN 1 ELSE sc
        hasPrevious == Len(merged) > 0
        hasNext == k + 1 < Len(cs)
    IN  IF sentenceCount >= minSentences
        THEN [mergedChunks |-> Append(merged, currentChunk), i |-> k + 1]
        ELSE IF hasPrevious
        THEN [mergedChunks |->
                 [merged EXCEPT ![Len(merged)] =
                     mergeTwoChunks(merged[Len(merged)], currentChunk)],
              i |-> k + 1]
        ELSE IF hasNext
        THEN [mergedChunks |->
                 Append(merged, mergeTwoChunks(currentChunk, cs[k + 2])),
              i |-> k + 1]
        ELSE [mergedChunks |-> Append(merged, currentChunk), i |-> k + 1]

\* One iteration of the while loop: from (mergedChunks, i) to the next pair.
mergeShortChunksStep(cs, merged, k, minSentences) ==
    LET currentChunk == cs[k + 1]
        sc == currentChunk.metadata.sentenceCount
        sentenceCount == IF sc = 0 THEN 1 ELSE sc
        hasPrevious == Len(merged) > 0
        hasNext == k + 1 < Len(cs)
    IN  IF sentenceCount >= minSentences
        THEN [mergedChunks |-> Append(merged, currentChunk), i |-> k + 1]
        ELSE IF hasPrevious /\ ~hasNext
        THEN [mergedChunks |->
                 [merged EXCEPT ![Len(merged)] =
                     mergeTwoChunks(merged[Len(merged)], currentChunk)],
              i |-> k + 1]
        ELSE IF ~hasPrevious /\ hasNext
        THEN [mergedChunks |->
                 Append(merged, mergeTwoChunks(currentChunk, cs[k + 2])),
              i |-> k + 2]
        ELSE IF hasPrevious /\ hasNext
        THEN [mergedChunks |->
                 [merged EXCEPT ![Len(merged)] =
                     mergeTwoChunks(merged[Len(merged)], currentChunk)],
              i |-> k + 1]
        ELSE [mergedChunks |-> Append(merged, currentChunk), i |-> k + 1]

RECURSIVE mergeShortChunksLoop(_, _, _, _)
mergeShortChunksLoop(cs, merged, k, minSentences) ==
    IF k < Len(cs)
    THEN LET nxt == mergeShortChunksStep(cs, merged, k, minSentences)
         IN  mergeShortChunksLoop(cs, nxt.mergedChunks, nxt.i, minSentences)
    ELSE merged

mergeShortChunks(cs, minSentences) ==
    IF Len(cs) = 0 THEN cs
    ELSE mergeShortChunksLoop(cs, <<>>, 0, minSentences)

----------------------------------------------------------------------------
(* SemanticAnalyzer.groupSentencesIntoChunks *)

\* The chunk the forEach callback builds from a non-empty group.
chunkOfGroup(group) ==
    LET firstSentence == group[1]
        lastSentence == group[Len(group)]
        subtitleIndex == IF IsSome(firstSentence.metadata)
                         THEN firstSentence.metadata[1].subtitleIndex ELSE None
        startTime == IF IsSome(firstSentence.metadata)
                     THEN firstSentence.metadata[1].startTime ELSE None
        endTime == IF IsSome(lastSentence.metadata)
                   THEN lastSentence.metadata[1].endTime ELSE None
    IN  [content |-> Join([k \in 1..Len(group) |-> group[k].sentence], <<SP>>),
         metadata |->
            [sentenceCount |-> Len(group),
             startSentenceIndex |-> firstSentence.index,
             endSentenceIndex |-> lastSentence.index,
             subtitleIndex |-> subtitleIndex,
             startTime |-> startTime,
             endTime |-> endTime,
             timestamp |-> IF IsSome(lastSentence.metadata)
                              /\ TruthyStr(startTime) /\ TruthyStr(endTime)
                           THEN Some(TimestampOf(startTime[1], endTime[1]))
                           ELSE None]]

\* The forEach over adjustedBreakpoints.  An empty group makes
\* firstSentence undefined, and reading firstSentence.index throws.
RECURSIVE groupForEach(_, _, _, _)
groupForEach(arr, breakpoints, startIdx, acc) ==
    IF Len(breakpoints) = 0 THEN [error |-> None, chunks |-> acc]
    ELSE LET breakpoint == breakpoints[1]
             group == Slice(arr, startIdx, breakpoint + 1)
         IN  IF Len(group) = 0
             THEN [error |-> Some("TypeError"), chunks |-> acc]
             ELSE groupForEach(arr, Tail(breakpoints), breakpoint + 1,
                               Append(acc, chunkOfGroup(group)))

adjustedBreakpoints(arr, shifts) == Append(shifts, Len(arr) - 1)

rawChunks(arr, shifts) ==
    groupForEach(arr, adjustedBreakpoints(arr, shifts), 0, <<>>)

groupSentencesIntoChunks(arr, shifts) ==
    LET raw == rawChunks(arr, shifts)
    IN  IF IsSome(raw.error)
        THEN [error |-> raw.error, sentenceObjectArray |-> arr,
              chunks |-> <<>>]
        ELSE [error |-> None, sentenceObjectArray |-> arr,
              chunks |-> mergeShortChunks(raw.chunks, minSentencesDefault)]

----------------------------------------------------------------------------
(* SemanticAnalyzer.cosineSimilarity, in fixed point *)

\* The number 1 of `1 - similarity`: similarities and distances are kept as
\* integer multiples of 1/One.
One == 100

\* The divisor of `percentileThreshold / 100`.
Percent == 100

RECURSIVE dot(_, _)
dot(vecA, vecB) ==
    IF Len(vecA) = 0 THEN 0
    ELSE vecA[1] * vecB[1] + dot(Tail(vecA), Tail(vecB))

\* math.norm: the Euclidean norm.  The embedding vectors of the model have
\* integer norms, so the square root is exact.
norm(vec) ==
    LET sq == dot(vec, vec)
    IN  CHOOSE r \in 0..sq : r * r = sq

\* Variant: a zero norm gives similarity 1 instead of 0.
cosineSimilarity_zeroNormIsOne(vecA, vecB) ==
    LET dotProduct == dot(vecA, vecB)
        normA == norm(vecA)
        normB == norm(vecB)
    IN  IF normA = 0 \/ normB = 0 THEN One
        ELSE (One * dotProduct) \div (normA * normB)

cosineSimilarity(vecA, vecB) ==
    LET dotProduct == dot(vecA, vecB)
        normA == norm(vecA)
        normB == norm(vecB)
    IN  IF normA = 0 \/ normB = 0 THEN 0
        ELSE (One * dotProduct) \div (normA * normB)

----------------------------------------------------------------------------
(* SemanticAnalyzer.calculateCosineDistancesAndSignificantShifts *)

\* Lines 134-138: the pair (index, index+1) gets a distance.
hasDistance(arr, index) ==
    /\ index < Len(arr) - 1
    /\ IsSome(arr[index + 1].combined_sentence_embedding)
    /\ IsSome(arr[index + 2].combined_sentence_embedding)

distanceAt(arr, index) ==
    One - cosineSimilarity(arr[index + 1].combined_sentence_embedding[1],
                           arr[index + 2].combined_sentence_embedding[1])

\* Lines 132-152: the mapped copy with distance_to_next set.
updatedSentenceObjectArray(arr) ==
    [k \in 1..Len(arr) |->
        [arr[k] EXCEPT !.distance_to_next =
            IF hasDistance(arr, k - 1) THEN Some(distanceAt(arr, k - 1))
            ELSE None]]

\* Lines 131, 146: the distances pushed, in index order.
RECURSIVE distancesFrom(_, _)
distancesFrom(arr, index) ==
    IF index >= Len(arr) THEN <<>>
    ELSE (IF hasDistance(arr, index) THEN <<distanceAt(arr, index)>> ELSE <<>>)
         \o distancesFrom(arr, index + 1)

\* [...distances].sort((a, b) => a - b)
RECURSIVE insertSorted(_, _)
insertSorted(x, sorted) ==
    IF Len(sorted) = 0 THEN <<x>>
    ELSE IF x <= sorted[1] THEN <<x>> \o sorted
    ELSE <<sorted[1]>> \o insertSorted(x, Tail(sorted))

RECURSIVE sortAscending(_)
sortAscending(ds) ==
    IF Len(ds) = 0 THEN <<>>
    ELSE insertSorted(ds[1], sortAscending(Tail(ds)))

\* Variant: an empty array yields the default 0 instead of undefined.
quantile_defaultOnEmpty(values, percentile) ==
    LET n == Len(values)
        iTimesPercent == (n - 1) * percentile
        i0 == iTimesPercent \div Percent
        value0 == values[i0 + 1]
        value1 == values[i0 + 2]
    IN  IF n = 0 THEN Some(0)
        ELSE IF percentile <= 0 \/ n < 2 THEN Some(Percent * values[1])
        ELSE IF percentile >= Percent THEN Some(Percent * values[n])
        ELSE Some(Percent * value0
                  + (value1 - value0) * (iTimesPercent - Percent * i0))

\* Variant: the lower neighbour is returned without interpolation.
quantile_noInterpolation(values, percentile) ==
    LET n == Len(values)
        i0 == ((n - 1) * percentile) \div Percent
    IN  IF n = 0 THEN None
        ELSE IF percentile <= 0 \/ n < 2 THEN Some(Percent * values[1])
        ELSE IF percentile >= Percent THEN Some(Percent * values[n])
        ELSE Some(Percent * values[i0 + 1])

\* d3-array quantile(values, p) on an ascending array, p = percentile/Percent.
\* Result: undefined for an empty array, else the value times Percent:
\*   p <= 0 or n < 2 : min(values);  p >= 1 : max(values);
\*   else i = (n-1)p, i0 = floor(i), value0 + (value1 - value0) * (i - i0).
quantile(values, percentile) ==
    LET n == Len(values)
        iTimesPercent == (n - 1) * percentile
        i0 == iTimesPercent \div Percent
        value0 == values[i0 + 1]
        value1 == values[i0 + 2]
    IN  IF n = 0 THEN None
        ELSE IF percentile <= 0 \/ n < 2 THEN Some(Percent * values[1])
        ELSE IF percentile >= Percent THEN Some(Percent * values[n])
        ELSE Some(Percent * value0
                  + (value1 - value0) * (iTimesPercent - Percent * i0))

\* Variant: a distance equal to the threshold counts as a shift.
RECURSIVE shiftsFrom_nonStrict(_, _, _)
shiftsFrom_nonStrict(ds, thresholdTimesPercent, index) ==
    IF index >= Len(ds) THEN <<>>
    ELSE (IF Percent * ds[index + 1] >= thresholdTimesPercent
          THEN <<index>> ELSE <<>>)
         \o shiftsFrom_nonStrict(ds, thresholdTimesPercent, index + 1)

\* Variant: the callback returns index + 1, the unit after the boundary.
RECURSIVE shiftsFrom_unitAfter(_, _, _)
shiftsFrom_unitAfter(ds, thresholdTimesPercent, index) ==
    IF index >= Len(ds) THEN <<>>
    ELSE (IF Percent * ds[index + 1] > thresholdTimesPercent
          THEN <<index + 1>> ELSE <<>>)
         \o shiftsFrom_unitAfter(ds, thresholdTimesPercent, index + 1)

\* Lines 167-171: the positions of the distances above the threshold.
RECURSIVE shiftsFrom(_, _, _)
shiftsFrom(ds, thresholdTimesPercent, index) ==
    IF index >= Len(ds) THEN <<>>
    ELSE (IF Percent * ds[index + 1] > thresholdTimesPercent
          THEN <<index>> ELSE <<>>)
         \o shiftsFrom(ds, thresholdTimesPercent, index + 1)

thresholdError == "Failed to calculate breakpoint distance threshold"

\* Lines 154-176: threshold and shift indices of a distance array.
significantShifts(ds, percentileThreshold) ==
    LET sortedDistances == sortAscending(ds)
        breakpointDistanceThreshold ==
            quantile(sortedDistances, percentileThreshold)
    IN  IF breakpointDistanceThreshold = None
        THEN [error |-> Some(thresholdError),
              threshold |-> None,
              significantShiftIndices |-> <<>>]
        ELSE [error |-> None,
              threshold |-> breakpointDistanceThreshold,
              significantShiftIndices |->
                  shiftsFrom(ds, breakpointDistanceThreshold[1], 0)]

calculateCosineDistancesAndSignificantShifts(arr, percentileThreshold) ==
    LET ds == distancesFrom(arr, 0)
        r == significantShifts(ds, percentileThreshold)
    IN  [error |-> r.error,
         sentenceObjectArray |-> arr,
         distances |-> ds,
         threshold |-> r.threshold,
         updatedArray |-> updatedSentenceObjectArray(arr),
         significantShiftIndices |-> r.significantShiftIndices]

----------------------------------------------------------------------------
(* Units handed to the operations *)

Letters == <<"a", "b", "c", "d", "e", "f", "g", "h">>
Digits == <<"0", "1", "2", "3", "4", "5", "6", "7", "8", "9">>

\* The sentence of the unit at position k (0-based): distinct per position.
SentenceAt(k) == <<Letters[k + 1]>>

\* An SRT time "00:00:0k,000".
TimeAt(k) == "00:00:0" \o Digits[k + 1] \o ",000"

\* SubtitleMetadata of the subtitle at position k (SubtitleParser.ts 57-62).
MetadataAt(k) ==
    [subtitleIndex |-> Some(k + 1),
     startTime |-> Some(TimeAt(k)),
     endTime |-> Some(TimeAt(k + 1)),
     timestamp |-> Some(TimestampOf(TimeAt(k), TimeAt(k + 1)))]

\* A SentenceObject (types/index.ts): sentence, index and optional fields.
SentenceObject(sentence, index, metadata) ==
    [sentence |-> sentence,
     index |-> index,
     combined_sentence |-> None,
     combined_sentence_embedding |-> None,
     distance_to_next |-> None,
     metadata |-> metadata]

\* n units in sequence order; the units at the positions in withMeta carry
\* sourceMetadata.
UnitsOf(n, withMeta) ==
    [k \in 1..n |->
        SentenceObject(SentenceAt(k - 1), k - 1,
                       IF (k - 1) \in withMeta THEN Some(MetadataAt(k - 1))
                       ELSE None)]

\* The ascending list of the elements of a finite set of integers.
RECURSIVE AscendingOf(_)
AscendingOf(S) ==
    IF S = {} THEN <<>>
    ELSE LET m == CHOOSE x \in S : \A y \in S : x <= y
         IN  <<m>> \o AscendingOf(S \ {m})

----------------------------------------------------------------------------
(* A direct call of groupSentencesIntoChunks(sentenceObjectArray,          *)
(* shiftIndices): the forEach, then the merge pass one iteration at a time *)

NoConfig == [bufferSize |-> 0, percentileThreshold |-> 0]

InitGroup ==
    /\ call = "groupSentencesIntoChunks"
    /\ pc = "called"
    /\ \E n \in 0..MaxUnits :
       \E withMeta \in SUBSET (0..(n - 1)) :
       \E S \in SUBSET (0..(n - 2)) :
          /\ sentenceObjectArray = UnitsOf(n, withMeta)
          /\ shiftIndices = AscendingOf(S)
    /\ config = NoConfig
    /\ textCorpus = None
    /\ batch = None
    /\ embedCalls = 0
    /\ distances = <<>>
    /\ threshold = None
    /\ chunks = <<>>
    /\ mergedChunks = <<>>
    /\ i = 0
    /\ result = None
    /\ error = None
    /\ embedState = "none"
    /\ held = <<>>
    /\ providerVectors = None
    /\ calls = <<>>

\* Lines 211-257: build the raw chunks; line 260 enters mergeShortChunks.
GroupForEach ==
    /\ call = "groupSentencesIntoChunks"
    /\ pc = "called"
    /\ LET raw == rawChunks(sentenceObjectArray, shiftIndices)
       IN  IF IsSome(raw.error)
           THEN /\ pc' = "failed"
                /\ error' = raw.error
                /\ UNCHANGED chunks
           ELSE /\ pc' = "merging"
                /\ chunks' = raw.chunks
                /\ UNCHANGED error
    /\ mergedChunks' = <<>>
    /\ i' = 0
    /\ UNCHANGED <<call, providerVectors, calls, embedState, held, config, textCorpus, batch, embedCalls,
                   sentenceObjectArray, distances, threshold, shiftIndices,
                   result>>

\* One iteration of the while loop of mergeShortChunks (lines 276-310).
MergeIteration ==
    /\ call = "groupSentencesIntoChunks"
    /\ pc = "merging"
    /\ i < Len(chunks)
    /\ LET nxt == mergeShortChunksStep(chunks, mergedChunks, i,
                                       minSentencesDefault)
       IN  /\ mergedChunks' = nxt.mergedChunks
           /\ i' = nxt.i
    /\ UNCHANGED <<call, providerVectors, calls, embedState, held, pc, config, textCorpus, batch, embedCalls,
                   sentenceObjectArray, distances, threshold, shiftIndices,
                   chunks, result, error>>

\* Loop exit and return (line 312, and line 260 of the caller).
MergeReturn ==
    /\ call = "groupSentencesIntoChunks"
    /\ pc = "merging"
    /\ i >= Len(chunks)
    /\ pc' = "done"
    /\ result' = Some(mergedChunks)
    /\ UNCHANGED <<call, providerVectors, calls, embedState, held, config, textCorpus, batch, embedCalls,
                   sentenceObjectArray, distances, threshold, shiftIndices,
                   chunks, mergedChunks, i, error>>

NextGroup == GroupForEach \/ MergeIteration \/ MergeReturn

SpecGroup == InitGroup /\ [][NextGroup]_vars

----------------------------------------------------------------------------
(* The threshold stage of calculateCosineDistancesAndSignificantShifts     *)
(* (lines 154-176) on a distance array that lines 130-152 have collected   *)

\* Distances in 1/One: 0.10, 0.15, 0.20, 0.90 and the extremes 0 and 2.
DistanceValues == {0, 10, 15, 20, 90, 200}

Percentiles == {0, 25, 50, 80, 90, 100}

RECURSIVE SeqsUpTo(_, _)
SeqsUpTo(S, n) ==
    IF n = 0 THEN {<<>>}
    ELSE LET shorter == SeqsUpTo(S, n - 1)
         IN  shorter \cup {Append(q, x) : q \in shorter, x \in S}

InitShifts ==
    /\ call = "calculateCosineDistancesAndSignificantShifts"
    /\ pc = "distances"
    /\ distances \in SeqsUpTo(DistanceValues, MaxDistances)
    /\ \E p \in Percentiles :
          config = [bufferSize |-> 0, percentileThreshold |-> p]
    /\ sentenceObjectArray = <<>>
    /\ shiftIndices = <<>>
    /\ textCorpus = None
    /\ batch = None
    /\ embedCalls = 0
    /\ threshold = None
    /\ chunks = <<>>
    /\ mergedChunks = <<>>
    /\ i = 0
    /\ result = None
    /\ error = None
    /\ embedState = "none"
    /\ held = <<>>
    /\ providerVectors = None
    /\ calls = <<>>

ThresholdAndShifts ==
    /\ call = "calculateCosineDistancesAndSignificantShifts"
    /\ pc = "distances"
    /\ LET r == significantShifts(distances, config.percentileThreshold)
       IN  /\ error' = r.error
           /\ threshold' = r.threshold
           /\ shiftIndices' = r.significantShiftIndices
           /\ pc' = IF IsSome(r.error) THEN "failed" ELSE "done"
           /\ result' = IF IsSome(r.error) THEN None
                        ELSE Some(r.significantShiftIndices)
    /\ UNCHANGED <<call, providerVectors, calls, embedState, held, config, textCorpus, batch, embedCalls,
                   sentenceObjectArray, distances, chunks, mergedChunks, i>>

NextShifts == ThresholdAndShifts

SpecShifts == InitShifts /\ [][NextShifts]_vars

----------------------------------------------------------------------------
(* calculateCosineDistancesAndSignificantShifts called directly on units   *)
(* whose combined_sentence_embedding is optional (types/index.ts)          *)

\* The embedding of a unit: absent, two vectors of norm 5, the zero vector.
ProfileEmbeddings == {None, Some(<<5, 0>>), Some(<<3, 4>>), Some(<<0, 0>>)}

ProfilePercentiles == {0, 50, 100}

\* The units of the call: the unit at position k carries embeddings[k].
UnitsWithEmbeddings(embeddings) ==
    [k \in 1..Len(embeddings) |->
        [SentenceObject(SentenceAt(k - 1), k - 1, None) EXCEPT
            !.combined_sentence = Some(SentenceAt(k - 1)),
            !.combined_sentence_embedding = embeddings[k]]]

InitProfile ==
    /\ call = "distanceStage"
    /\ pc = "called"
    /\ \E embeddings \in SeqsUpTo(ProfileEmbeddings, MaxProfileUnits) :
          sentenceObjectArray = UnitsWithEmbeddings(embeddings)
    /\ \E p \in ProfilePercentiles :
          config = [bufferSize |-> 0, percentileThreshold |-> p]
    /\ distances = <<>>
    /\ shiftIndices = <<>>
    /\ textCorpus = None
    /\ batch = None
    /\ embedCalls = 0
    /\ threshold = None
    /\ chunks = <<>>
    /\ mergedChunks = <<>>
    /\ i = 0
    /\ result = None
    /\ error = None
    /\ embedState = "none"
    /\ held = <<>>
    /\ providerVectors = None
    /\ calls = <<>>

\* Lines 126-176: the whole call; sentenceObjectArray becomes the returned
\* updatedArray, or stays as passed when the call throws.
CalculateDistances ==
    /\ call = "distanceStage"
    /\ pc = "called"
    /\ LET r == calculateCosineDistancesAndSignificantShifts(
                    sentenceObjectArray, config.percentileThreshold)
       IN  /\ error' = r.error
           /\ distances' = r.distances
           /\ threshold' = r.threshold
           /\ shiftIndices' = r.significantShiftIndices
           /\ pc' = IF IsSome(r.error) THEN "failed" ELSE "done"
           /\ sentenceObjectArray' =
                 IF IsSome(r.error) THEN sentenceObjectArray
                 ELSE r.updatedArray
           /\ result' =
                 IF IsSome(r.error) THEN None
                 ELSE Some([updatedArray |-> r.updatedArray,
                            significantShiftIndices |->
                                r.significantShiftIndices])
    /\ UNCHANGED <<call, providerVectors, calls, embedState, held, config, textCorpus,
                   batch, embedCalls, chunks, mergedChunks, i>>

NextProfile == CalculateDistances

SpecProfile == InitProfile /\ [][NextProfile]_vars

----------------------------------------------------------------------------
(* SubtitleParser.parseSubtitles *)

\* A block of the text (the pieces between blank lines), described by what
\* the parser reads from it: the number of non-empty lines, parseInt of
\* line 1 (<<>> for NaN), the match of the timestamp pattern on line 2
\* (<<>> for no match), and lines 3.. joined with single spaces.
BlockKinds == {"subtitle", "noTimestamp", "noContent", "noIndex"}

BlockAt(kind, k) ==
    [lines |-> IF kind = "noContent" THEN 2 ELSE 3,
     subtitleIndex |-> IF kind = "noIndex" THEN None ELSE Some(k + 1),
     timestampMatch |-> IF kind = "noTimestamp" THEN None
                        ELSE Some([startTime |-> TimeAt(k),
                                   endTime |-> TimeAt(k + 1)]),
     timestamp |-> IF kind = "noTimestamp" THEN "text"
                   ELSE TimestampOf(TimeAt(k), TimeAt(k + 1)),
     content |-> IF kind = "noContent" THEN <<>> ELSE SentenceAt(k)]

CorpusOf(kinds) == [k \in 1..Len(kinds) |-> BlockAt(kinds[k], k - 1)]

\* String.prototype.trim
RECURSIVE TrimStart(_)
TrimStart(str) ==
    IF Len(str) > 0 /\ str[1] = SP THEN TrimStart(Tail(str)) ELSE str

RECURSIVE TrimEnd(_)
TrimEnd(str) ==
    IF Len(str) > 0 /\ str[Len(str)] = SP
    THEN TrimEnd(SubSeq(str, 1, Len(str) - 1)) ELSE str

Trim(str) == TrimEnd(TrimStart(str))

\* Line 32: the lines of a block, trimmed, the empty ones left out.
RECURSIVE trimmedLines(_)
trimmedLines(rawLines) ==
    IF Len(rawLines) = 0 THEN <<>>
    ELSE (IF Len(Trim(rawLines[1])) > 0 THEN <<Trim(rawLines[1])>> ELSE <<>>)
         \o trimmedLines(Tail(rawLines))

IsDigit(c) == \E d \in 1..Len(Digits) : Digits[d] = c

DigitValue(c) == (CHOOSE d \in 1..Len(Digits) : Digits[d] = c) - 1

\* The value of the decimal digits str[from..to] (0 when from > to).
RECURSIVE DecimalValue(_, _, _)
DecimalValue(str, from, to) ==
    IF from > to THEN 0
    ELSE DecimalValue(str, from, to - 1) * 10 + DigitValue(str[to])

\* parseInt (line 37): leading whitespace, an optional sign, then the
\* longest run of decimal digits; NaN (<<>>) when there is no digit.
parseInt(line) ==
    LET str == TrimStart(line)
        signed == Len(str) > 0 /\ str[1] \in {"+", "-"}
        first == IF signed THEN 2 ELSE 1
        last == CHOOSE e \in (first - 1)..Len(str) :
                    /\ \A q \in first..e : IsDigit(str[q])
                    /\ (e < Len(str) => ~IsDigit(str[e + 1]))
        value == DecimalValue(str, first, last)
    IN  IF last < first THEN None
        ELSE Some(IF signed /\ str[1] = "-" THEN 0 - value ELSE value)

\* \d{2}:\d{2}:\d{2},\d{3} at position p (1-based) of str.
TimeAtPosition(str, p) ==
    /\ p >= 1
    /\ p + 11 <= Len(str)
    /\ \A q \in {0, 1, 3, 4, 6, 7, 9, 10, 11} : IsDigit(str[p + q])
    /\ str[p + 2] = ":"
    /\ str[p + 5] = ":"
    /\ str[p + 8] = ","

\* \s*-->\s* filling str[from..to] exactly.
ArrowBetween(str, from, to) ==
    \E a \in from..(to - 2) :
        /\ str[a] = "-" /\ str[a + 1] = "-" /\ str[a + 2] = ">"
        /\ \A q \in (from..(a - 1)) \cup ((a + 3)..to) : str[q] = SP

\* The pairs of positions at which the timestamp pattern of line 40 matches.
TimestampMatches(str) ==
    LET starts == {p \in 1..Len(str) : TimeAtPosition(str, p)}
    IN  {m \in starts \X starts :
            /\ m[2] >= m[1] + 15
            /\ ArrowBetween(str, m[1] + 12, m[2] - 1)}

\* String.prototype.match (line 40): the two captured groups of the leftmost
\* match, <<>> when the pattern matches nowhere.
timestampMatch(line) ==
    IF TimestampMatches(line) = {} THEN None
    ELSE LET m == CHOOSE x \in TimestampMatches(line) :
                      \A y \in TimestampMatches(line) : x[1] <= y[1]
         IN  Some([startTime |-> SubSeq(line, m[1], m[1] + 11),
                   endTime |-> SubSeq(line, m[2], m[2] + 11)])

\* Lines 32-52: what the parser reads from the raw lines of one block: the
\* number of non-empty lines, parseInt of the first, the match on the
\* second, the second itself, and the rest joined with single spaces.
blockOf(rawLines) ==
    LET lines == trimmedLines(rawLines)
    IN  [lines |-> Len(lines),
         subtitleIndex |-> IF Len(lines) >= 1 THEN parseInt(lines[1])
                           ELSE None,
         timestampMatch |-> IF Len(lines) >= 2 THEN timestampMatch(lines[2])
                            ELSE None,
         timestamp |-> IF Len(lines) >= 2 THEN lines[2] ELSE <<>>,
         content |-> Join(Slice(lines, 2, Len(lines)), <<SP>>)]

\* Variant: the first block that is not a subtitle ends the parse.
RECURSIVE parseSubtitles_stopAtMalformed(_)
parseSubtitles_stopAtMalformed(blocks) ==
    IF Len(blocks) = 0 THEN <<>>
    ELSE LET block == blocks[1]
             rest == parseSubtitles_stopAtMalformed(Tail(blocks))
         IN  IF block.lines < 2 THEN <<>>
             ELSE IF block.timestampMatch = None THEN <<>>
             ELSE IF Len(block.content) > 0 /\ IsSome(block.subtitleIndex)
             THEN <<[content |-> Trim(block.content),
                     metadata |->
                        [subtitleIndex |-> block.subtitleIndex,
                         startTime |-> Some(block.timestampMatch[1].startTime),
                         endTime |-> Some(block.timestampMatch[1].endTime),
                         timestamp |-> Some(block.timestamp)]]>> \o rest
             ELSE <<>>

\* Lines 31-64 on the blocks of the text (the split of line 29 is taken as
\* done: the text is given as its blocks).
RECURSIVE parseSubtitles(_)
parseSubtitles(blocks) ==
    IF Len(blocks) = 0 THEN <<>>
    ELSE LET block == blocks[1]
             rest == parseSubtitles(Tail(blocks))
         IN  IF block.lines < 2 THEN rest
             ELSE IF block.timestampMatch = None THEN rest
             ELSE IF Len(block.content) > 0 /\ IsSome(block.subtitleIndex)
             THEN <<[content |-> Trim(block.content),
                     metadata |->
                        [subtitleIndex |-> block.subtitleIndex,
                         startTime |-> Some(block.timestampMatch[1].startTime),
                         endTime |-> Some(block.timestampMatch[1].endTime),
                         timestamp |-> Some(block.timestamp)]]>> \o rest
             ELSE rest

\* SubtitleParser.isSubtitleFormat: the timestamp pattern is tested on the
\* whole text; in a text made of these blocks it can match on a timestamp
\* line only.
isSubtitleFormat(blocks) ==
    \E k \in 1..Len(blocks) : IsSome(blocks[k].timestampMatch)

\* SentenceProcessor.splitToSentencesUsingNLP: the contents of the parsed
\* subtitles for subtitle text, the tokenizer's sentences otherwise.  The
\* tokenizer is a library; a plain text is drawn with one sentence to a
\* block, so its sentences are the blocks' texts in order.
splitToSentencesUsingNLP(blocks) ==
    IF isSubtitleFormat(blocks)
    THEN [k \in 1..Len(parseSubtitles(blocks)) |->
             parseSubtitles(blocks)[k].content]
    ELSE [k \in 1..Len(blocks) |-> blocks[k].content]

----------------------------------------------------------------------------
(* SentenceProcessor.structureSubtitles *)

\* Lines 154-170: the combined sentence of the unit at position k (0-based).
\* Variant: the first loop runs up to and including the current unit.
RECURSIVE combineBefore_inclusive(_, _, _)
combineBefore_inclusive(arr, j, k) ==
    IF j > k THEN <<>>
    ELSE (IF j >= 0 THEN arr[j + 1].sentence \o <<SP>> ELSE <<>>)
         \o combineBefore_inclusive(arr, j + 1, k)

RECURSIVE combineBefore(_, _, _)
combineBefore(arr, j, k) ==
    IF j >= k THEN <<>>
    ELSE (IF j >= 0 THEN arr[j + 1].sentence \o <<SP>> ELSE <<>>)
         \o combineBefore(arr, j + 1, k)

\* Variant: the following sentences are separated by single spaces.
RECURSIVE combineAfter_separated(_, _, _)
combineAfter_separated(arr, j, last) ==
    IF j > last THEN <<>>
    ELSE (IF j < Len(arr) THEN arr[j + 1].sentence \o <<SP>> ELSE <<>>)
         \o combineAfter_separated(arr, j + 1, last)

RECURSIVE combineAfter(_, _, _)
combineAfter(arr, j, last) ==
    IF j > last THEN <<>>
    ELSE (IF j < Len(arr) THEN arr[j + 1].sentence ELSE <<>>)
         \o combineAfter(arr, j + 1, last)

combinedSentence(arr, k, bufferSize) ==
    Trim(combineBefore(arr, k - bufferSize, k)
         \o arr[k + 1].sentence \o <<SP>>
         \o combineAfter(arr, k + 1, k + bufferSize))

structureSubtitles(blocks, bufferSize) ==
    LET parsedSubtitles == parseSubtitles(blocks)
        arr == [k \in 1..Len(parsedSubtitles) |->
                   SentenceObject(parsedSubtitles[k].content, k - 1,
                                  Some(parsedSubtitles[k].metadata))]
    IN  [k \in 1..Len(arr) |->
            [arr[k] EXCEPT !.combined_sentence =
                Some(combinedSentence(arr, k - 1, bufferSize))]]

----------------------------------------------------------------------------
(* EmbeddingService.generateAndAttachEmbeddings *)

\* Lines 49-51: the batch handed to embedDocuments.
RECURSIVE combinedSentencesStrings(_)
combinedSentencesStrings(arr) ==
    IF Len(arr) = 0 THEN <<>>
    ELSE (IF IsSome(arr[1].combined_sentence)
          THEN <<arr[1].combined_sentence[1]>> ELSE <<>>)
         \o combinedSentencesStrings(Tail(arr))

\* Number of units before position k (1-based) with a combined sentence:
\* the value of embeddingIndex when the loop reaches that unit.
embeddingIndexAt(arr, k) ==
    Cardinality({j \in 1..(k - 1) : IsSome(arr[j].combined_sentence)})

\* Variant: the vector is taken at the unit's own position i instead of
\* embeddingIndex.
attachEmbeddings_byPosition(arr, embeddingsArray) ==
    [k \in 1..Len(arr) |->
        IF IsSome(arr[k].combined_sentence)
        THEN [arr[k] EXCEPT !.combined_sentence_embedding =
                 IF k <= Len(embeddingsArray)
                 THEN Some(embeddingsArray[k])
                 ELSE None]
        ELSE arr[k]]

\* Lines 59-65: attach embeddingsArray[embeddingIndex++]; an index past the
\* end of embeddingsArray reads undefined.
attachEmbeddings(arr, embeddingsArray) ==
    [k \in 1..Len(arr) |->
        IF IsSome(arr[k].combined_sentence)
        THEN [arr[k] EXCEPT !.combined_sentence_embedding =
                 IF embeddingIndexAt(arr, k) < Len(embeddingsArray)
                 THEN Some(embeddingsArray[embeddingIndexAt(arr, k) + 1])
                 ELSE None]
        ELSE arr[k]]

\* Variant: the embeddings are attached to the caller's objects, and the
\* caller's array is returned.
generateAndAttachEmbeddings_inPlace(sentencesArray, embeddingsArray) ==
    [sentencesArray |-> attachEmbeddings(sentencesArray, embeddingsArray),
     returned |-> attachEmbeddings(sentencesArray, embeddingsArray),
     isNewArray |-> FALSE]

\* Lines 39-67 once embedDocuments has resolved with embeddingsArray: the
\* embeddings are attached to the copies made at lines 39-46.  The result
\* holds what the call leaves in the caller's array, the array it returns,
\* and whether that array is a new one.
generateAndAttachEmbeddings(sentencesArray, embeddingsArray) ==
    LET sentencesArrayCopy ==
            [k \in 1..Len(sentencesArray) |-> sentencesArray[k]]
    IN  [sentencesArray |-> sentencesArray,
         returned |-> attachEmbeddings(sentencesArrayCopy, embeddingsArray),
         isNewArray |-> TRUE]

\* The record of one stage run: the sequence the caller passed, before and
\* after the call, and whether the call returned a new sequence.
StageRun(stage, before, after, isNewArray) ==
    [stage |-> stage, before |-> before, after |-> after,
     isNewArray |-> isNewArray]

----------------------------------------------------------------------------
(* SemanticChunkingService.processTextFile *)

\* Embedding vectors the provider may return: norm 5 or the zero vector, so
\* that every cosine similarity is a multiple of 1/25.
Vectors == {<<5, 0>>, <<3, 4>>, <<0, 5>>, <<0, 0>>}

BufferSizes == {0, 1, 2}

RECURSIVE KindSeqs(_)
KindSeqs(n) ==
    IF n = 0 THEN {<<>>}
    ELSE LET shorter == KindSeqs(n - 1)
         IN  shorter \cup {Append(q, x) : q \in shorter, x \in BlockKinds}

\* The call has read its config (lines 46-49) and awaits loadTextFile.
InitProcess ==
    /\ call = "processTextFile"
    /\ pc = "loading"
    /\ \E b \in BufferSizes, p \in Percentiles :
          config = [bufferSize |-> b, percentileThreshold |-> p]
    /\ textCorpus = None
    /\ batch = None
    /\ embedCalls = 0
    /\ sentenceObjectArray = <<>>
    /\ distances = <<>>
    /\ threshold = None
    /\ shiftIndices = <<>>
    /\ chunks = <<>>
    /\ mergedChunks = <<>>
    /\ i = 0
    /\ result = None
    /\ error = None
    /\ embedState = "none"
    /\ held = <<>>
    /\ providerVectors = None
    /\ calls = <<>>

\* Variant: embedDocuments is called once per unit, each call with that
\* unit's combined sentence alone.
LoadResolved_perUnit ==
    /\ call = "processTextFile"
    /\ pc = "loading"
    /\ \E kinds \in KindSeqs(MaxBlocks) :
          /\ textCorpus' = Some(CorpusOf(kinds))
          /\ sentenceObjectArray' =
                structureSubtitles(CorpusOf(kinds), config.bufferSize)
    /\ batch' = Some(combinedSentencesStrings(
                         IF Len(sentenceObjectArray') = 0 THEN <<>>
                         ELSE <<sentenceObjectArray'[
                                    Len(sentenceObjectArray')]>>))
    /\ embedCalls' = embedCalls + Len(sentenceObjectArray')
    /\ pc' = "embedding"
    /\ embedState' = "inFlight"
    /\ UNCHANGED <<call, providerVectors, calls, held, config, distances, threshold, shiftIndices,
                   chunks, mergedChunks, i, result, error>>

\* loadTextFile resolves (line 52); structureSubtitles runs (55-58);
\* generateAndAttachEmbeddings copies the units and awaits embedDocuments
\* (EmbeddingService.ts 39-56).
LoadResolved ==
    /\ call = "processTextFile"
    /\ pc = "loading"
    /\ \E kinds \in KindSeqs(MaxBlocks) :
          /\ textCorpus' = Some(CorpusOf(kinds))
          /\ sentenceObjectArray' =
                structureSubtitles(CorpusOf(kinds), config.bufferSize)
    /\ batch' = Some(combinedSentencesStrings(sentenceObjectArray'))
    /\ embedCalls' = embedCalls + 1
    /\ pc' = "embedding"
    /\ embedState' = "inFlight"
    /\ UNCHANGED <<call, providerVectors, calls, held, config, distances, threshold, shiftIndices, chunks,
                   mergedChunks, i, result, error>>

\* loadTextFile rejects: the call rejects with the loader's error.
LoadRejected ==
    /\ call = "processTextFile"
    /\ pc = "loading"
    /\ pc' = "failed"
    /\ error' = Some("LoadError")
    /\ UNCHANGED <<call, providerVectors, calls, embedState, held, config, textCorpus, batch, embedCalls,
                   sentenceObjectArray, distances, threshold, shiftIndices,
                   chunks, mergedChunks, i, result>>

\* embedDocuments resolves: the embeddings are attached (59-67), then
\* processTextFile runs the distance stage (67-71) and the grouping (74-79).
EmbedResolved ==
    /\ call = "processTextFile"
    /\ pc = "embedding"
    /\ \E embeddingsArray \in [1..Len(batch[1]) -> Vectors] :
          LET attached == generateAndAttachEmbeddings(sentenceObjectArray,
                                                      embeddingsArray)
              sentencesWithEmbeddings == attached.returned
              shifts == calculateCosineDistancesAndSignificantShifts(
                            sentencesWithEmbeddings,
                            config.percentileThreshold)
              grouped == groupSentencesIntoChunks(
                             shifts.updatedArray,
                             shifts.significantShiftIndices)
              run1 == StageRun("generateAndAttachEmbeddings",
                               sentenceObjectArray, attached.sentencesArray,
                               attached.isNewArray)
              run2 == StageRun("calculateCosineDistancesAndSignificantShifts",
                               sentencesWithEmbeddings,
                               shifts.sentenceObjectArray, TRUE)
              run3 == StageRun("groupSentencesIntoChunks",
                               shifts.updatedArray,
                               grouped.sentenceObjectArray, TRUE)
          IN  /\ distances' = shifts.distances
              /\ providerVectors' = Some(embeddingsArray)
              /\ threshold' = shifts.threshold
              /\ shiftIndices' = shifts.significantShiftIndices
              /\ IF IsSome(shifts.error)
                 THEN /\ sentenceObjectArray' = sentencesWithEmbeddings
                      /\ pc' = "failed"
                      /\ error' = shifts.error
                      /\ held' = <<run1, run2>>
                      /\ UNCHANGED <<chunks, result>>
                 ELSE /\ sentenceObjectArray' = shifts.updatedArray
                      /\ held' = <<run1, run2, run3>>
                      /\ IF IsSome(grouped.error)
                         THEN /\ pc' = "failed"
                              /\ error' = grouped.error
                              /\ UNCHANGED <<chunks, result>>
                         ELSE /\ pc' = "done"
                              /\ chunks' = rawChunks(
                                     shifts.updatedArray,
                                     shifts.significantShiftIndices).chunks
                              /\ result' = Some(grouped.chunks)
                              /\ UNCHANGED error
    /\ batch' = None
    /\ embedState' = "resolved"
    /\ UNCHANGED <<call, calls, config, textCorpus, embedCalls, mergedChunks, i>>

\* Variant: a rejected embedDocuments is swallowed and the call returns an
\* empty chunk list.
EmbedRejected_salvage ==
    /\ call = "processTextFile"
    /\ pc = "embedding"
    /\ pc' = "done"
    /\ result' = Some(<<>>)
    /\ batch' = None
    /\ embedState' = "rejected"
    /\ UNCHANGED <<call, providerVectors, calls, held, config, textCorpus, embedCalls,
                   sentenceObjectArray, distances, threshold, shiftIndices,
                   chunks, mergedChunks, i, error>>

\* embedDocuments rejects: the call rejects with the provider's error.
EmbedRejected ==
    /\ call = "processTextFile"
    /\ pc = "embedding"
    /\ pc' = "failed"
    /\ error' = Some("EmbeddingError")
    /\ batch' = None
    /\ embedState' = "rejected"
    /\ UNCHANGED <<call, providerVectors, calls, held, config, textCorpus, embedCalls, sentenceObjectArray,
                   distances, threshold, shiftIndices, chunks, mergedChunks,
                   i, result>>

NextProcess == LoadResolved \/ LoadRejected \/ EmbedResolved \/ EmbedRejected

SpecProcess == InitProcess /\ [][NextProcess]_vars

----------------------------------------------------------------------------
(* A direct call of SentenceProcessor.structureSentences(sentences,        *)
(* bufferSize)                                                             *)

\* Lines 102-107: the objects mapped from the sentences.
mappedSentences(sentences) ==
    [k \in 1..Len(sentences) |-> SentenceObject(sentences[k], k - 1, None)]

\* Lines 109-127: every object gets its combined sentence.
structureSentences(sentences, bufferSize) ==
    LET arr == mappedSentences(sentences)
    IN  [k \in 1..Len(arr) |->
            [arr[k] EXCEPT !.combined_sentence =
                Some(combinedSentence(arr, k - 1, bufferSize))]]

\* Sentences a caller may pass: plain, with leading or trailing whitespace,
\* and empty.
SentenceChoices == {<<"a">>, <<"b">>, <<" ", "c">>, <<"d", " ">>, <<>>}

\* The call has mapped the sentences to objects (lines 102-107).
InitWindow ==
    /\ call = "structureSentences"
    /\ pc = "mapped"
    /\ \E sentences \in SeqsUpTo(SentenceChoices, MaxSentences) :
          sentenceObjectArray = mappedSentences(sentences)
    /\ \E b \in BufferSizes :
          config = [bufferSize |-> b, percentileThreshold |-> 0]
    /\ textCorpus = None
    /\ batch = None
    /\ embedCalls = 0
    /\ distances = <<>>
    /\ threshold = None
    /\ shiftIndices = <<>>
    /\ chunks = <<>>
    /\ mergedChunks = <<>>
    /\ i = 0
    /\ result = None
    /\ error = None
    /\ embedState = "none"
    /\ held = <<>>
    /\ providerVectors = None
    /\ calls = <<>>

\* The forEach of lines 109-127 and the return of line 129.
StructureSentences ==
    /\ call = "structureSentences"
    /\ pc = "mapped"
    /\ sentenceObjectArray' =
          structureSentences([k \in 1..Len(sentenceObjectArray) |->
                                 sentenceObjectArray[k].sentence],
                             config.bufferSize)
    /\ result' = Some(sentenceObjectArray')
    /\ pc' = "done"
    /\ UNCHANGED <<call, providerVectors, calls, embedState, held, config, textCorpus, batch, embedCalls, distances,
                   threshold, shiftIndices, chunks, mergedChunks, i, error>>

NextWindow == StructureSentences

SpecWindow == InitWindow /\ [][NextWindow]_vars

----------------------------------------------------------------------------
(* SubtitleParser.parseSubtitles called directly on raw blocks *)

\* "00:00:0k,000" as characters.
TimeChars(k) ==
    <<"0", "0", ":", "0", "0", ":", "0", Digits[k + 1], ",", "0", "0", "0">>

ArrowChars == <<" ", "-", "-", ">", " ">>

TimestampLine(k) == TimeChars(k) \o ArrowChars \o TimeChars(k + 1)

\* Blocks a text may hold, each as its raw lines: subtitles (plain, with
\* two padded content lines, with an index followed by text, with a tight
\* arrow and text around the timestamp) and blocks the parser drops (no
\* timestamp, no content, no index, a single line).
RawBlockChoices ==
    { << <<"1">>, TimestampLine(0), <<"a">> >>,
      << <<"1", "2">>, TimestampLine(1), <<" ", "b">>, <<"c", " ">> >>,
      << <<"3", "x">>,
         <<"x">> \o TimeChars(2) \o <<"-", "-", ">">> \o TimeChars(3)
             \o <<"y">>,
         <<"d">> >>,
      << <<"4">>, <<"x">>, <<"a">> >>,
      << <<"5">>, TimestampLine(4) >>,
      << <<"x">>, TimestampLine(5), <<"e">> >>,
      << <<"f">> >> }

\* The call has split the text into its non-blank blocks (line 29).
InitParse ==
    /\ call = "parseSubtitles"
    /\ pc = "split"
    /\ \E raw \in SeqsUpTo(RawBlockChoices, MaxRawBlocks) :
          textCorpus = Some(raw)
    /\ config = NoConfig
    /\ batch = None
    /\ embedCalls = 0
    /\ sentenceObjectArray = <<>>
    /\ distances = <<>>
    /\ threshold = None
    /\ shiftIndices = <<>>
    /\ chunks = <<>>
    /\ mergedChunks = <<>>
    /\ i = 0
    /\ result = None
    /\ error = None
    /\ embedState = "none"
    /\ held = <<>>
    /\ providerVectors = None
    /\ calls = <<>>

\* The loop of lines 31-64 and the return of line 67.
ParseSubtitles ==
    /\ call = "parseSubtitles"
    /\ pc = "split"
    /\ result' = Some(parseSubtitles([k \in 1..Len(textCorpus[1]) |->
                                         blockOf(textCorpus[1][k])]))
    /\ pc' = "done"
    /\ UNCHANGED <<call, providerVectors, calls, embedState, held, config, textCorpus, batch,
                   embedCalls, sentenceObjectArray, distances, threshold,
                   shiftIndices, chunks, mergedChunks, i, error>>

NextParse == ParseSubtitles

SpecParse == InitParse /\ [][NextParse]_vars

----------------------------------------------------------------------------
(* EmbeddingService.generateAndAttachEmbeddings called directly *)

\* What a unit of the call may look like: with a combined sentence or
\* without, and with an embedding from an earlier run or without.
AttachUnitChoices ==
    {[combined_sentence |-> w, combined_sentence_embedding |-> e] :
        w \in {None, Some(<<"w">>)}, e \in {None, Some(<<4, 3>>)}}

AttachVectors == {<<5, 0>>, <<3, 4>>, <<0, 5>>}

UnitsToAttach(choices) ==
    [k \in 1..Len(choices) |->
        [SentenceObject(SentenceAt(k - 1), k - 1, None) EXCEPT
            !.combined_sentence = choices[k].combined_sentence,
            !.combined_sentence_embedding =
                choices[k].combined_sentence_embedding]]

\* The call has copied its argument and awaits embedDocuments (39-56).
InitAttach ==
    /\ call = "generateAndAttachEmbeddings"
    /\ pc = "embedding"
    /\ \E choices \in SeqsUpTo(AttachUnitChoices, MaxAttachUnits) :
          sentenceObjectArray = UnitsToAttach(choices)
    /\ batch = Some(combinedSentencesStrings(sentenceObjectArray))
    /\ embedCalls = 1
    /\ embedState = "inFlight"
    /\ config = NoConfig
    /\ textCorpus = None
    /\ distances = <<>>
    /\ threshold = None
    /\ shiftIndices = <<>>
    /\ chunks = <<>>
    /\ mergedChunks = <<>>
    /\ i = 0
    /\ result = None
    /\ error = None
    /\ held = <<>>
    /\ providerVectors = None
    /\ calls = <<>>

\* embedDocuments resolves with one vector per string of the batch; lines
\* 59-67 attach them and return the copy.
AttachResolved ==
    /\ call = "generateAndAttachEmbeddings"
    /\ pc = "embedding"
    /\ \E embeddingsArray \in [1..Len(batch[1]) -> AttachVectors] :
          LET attached == generateAndAttachEmbeddings(sentenceObjectArray,
                                                      embeddingsArray)
          IN  /\ providerVectors' = Some(embeddingsArray)
              /\ result' = Some(attached.returned)
              /\ held' = <<StageRun("generateAndAttachEmbeddings",
                                    sentenceObjectArray,
                                    attached.sentencesArray,
                                    attached.isNewArray)>>
              /\ sentenceObjectArray' = attached.sentencesArray
    /\ batch' = None
    /\ embedState' = "resolved"
    /\ pc' = "done"
    /\ UNCHANGED <<call, calls, config, textCorpus, embedCalls, distances,
                   threshold, shiftIndices, chunks, mergedChunks, i, error>>

\* embedDocuments rejects: the call rejects with the provider's error.
AttachRejected ==
    /\ call = "generateAndAttachEmbeddings"
    /\ pc = "embedding"
    /\ batch' = None
    /\ embedState' = "rejected"
    /\ pc' = "failed"
    /\ error' = Some("EmbeddingError")
    /\ UNCHANGED <<call, calls, providerVectors, held, config, textCorpus,
                   embedCalls, sentenceObjectArray, distances, threshold,
                   shiftIndices, chunks, mergedChunks, i, result>>

NextAttach == AttachResolved \/ AttachRejected

SpecAttach == InitAttach /\ [][NextAttach]_vars

----------------------------------------------------------------------------
(* Two processTextFile calls on one SemanticChunkingService instance *)

\* Lines 67-79 of processTextFile: the distance stage and the grouping
\* stage on the units that carry their embeddings.
chunksOf(sentencesWithEmbeddings, percentileThreshold) ==
    LET shifts == calculateCosineDistancesAndSignificantShifts(
                      sentencesWithEmbeddings, percentileThreshold)
        grouped == groupSentencesIntoChunks(shifts.updatedArray,
                                            shifts.significantShiftIndices)
    IN  IF IsSome(shifts.error) THEN [error |-> shifts.error, chunks |-> <<>>]
        ELSE [error |-> grouped.error, chunks |-> grouped.chunks]

CallIds == {1, 2}

OtherCall(c) == 3 - c

\* The texts of the two calls are subtitle texts that differ in length.
ConcurrentKinds == {"subtitle"}

ConcurrentVectors == {<<5, 0>>, <<0, 5>>}

ConcurrentConfigs ==
    {[bufferSize |-> 1, percentileThreshold |-> 80],
     [bufferSize |-> 0, percentileThreshold |-> 50]}

\* The locals of one call (lines 46-64): nothing of a call is kept in a
\* field of the service.  overlapped records that the other call was
\* suspended at its embedding await when this one resumed from its own.
CallLocals(cfg) ==
    [pc |-> "loading",
     config |-> cfg,
     textCorpus |-> None,
     sentenceObjectArray |-> <<>>,
     embeddingsArray |-> None,
     overlapped |-> FALSE,
     result |-> None,
     error |-> None]

\* Both calls have read their config and await loadTextFile.
InitConcurrent ==
    /\ call = "concurrent"
    /\ pc = "interleaved"
    /\ \E c1 \in ConcurrentConfigs, c2 \in ConcurrentConfigs :
          calls = <<CallLocals(c1), CallLocals(c2)>>
    /\ config = NoConfig
    /\ textCorpus = None
    /\ batch = None
    /\ embedCalls = 0
    /\ sentenceObjectArray = <<>>
    /\ distances = <<>>
    /\ threshold = None
    /\ shiftIndices = <<>>
    /\ chunks = <<>>
    /\ mergedChunks = <<>>
    /\ i = 0
    /\ result = None
    /\ error = None
    /\ embedState = "none"
    /\ held = <<>>
    /\ providerVectors = None

\* Variant: the structured units are kept in a field of the service, so a
\* call that is suspended at its embedding await finds the units of the
\* call that loaded last.
ConcurrentLoadResolved_sharedField ==
    /\ call = "concurrent"
    /\ \E c \in CallIds :
          /\ calls[c].pc = "loading"
          /\ \E kinds \in SeqsUpTo(ConcurrentKinds, MaxConcurrentBlocks) :
                LET units == structureSubtitles(CorpusOf(kinds),
                                                calls[c].config.bufferSize)
                    mine == [calls[c] EXCEPT
                                !.pc = "embedding",
                                !.textCorpus = Some(CorpusOf(kinds)),
                                !.sentenceObjectArray = units]
                    other == IF calls[OtherCall(c)].pc = "embedding"
                             THEN [calls[OtherCall(c)] EXCEPT
                                      !.sentenceObjectArray = units]
                             ELSE calls[OtherCall(c)]
                IN  calls' = [k \in CallIds |-> IF k = c THEN mine ELSE other]
    /\ UNCHANGED <<call, providerVectors, pc, config, textCorpus, batch, embedCalls,
                   sentenceObjectArray, distances, threshold, shiftIndices,
                   chunks, mergedChunks, i, result, error, embedState, held>>

\* One call resumes from loadTextFile (line 52), structures its text
\* (55-58) and suspends at embedDocuments (EmbeddingService.ts 54).
ConcurrentLoadResolved ==
    /\ call = "concurrent"
    /\ \E c \in CallIds :
          /\ calls[c].pc = "loading"
          /\ \E kinds \in SeqsUpTo(ConcurrentKinds, MaxConcurrentBlocks) :
                calls' = [calls EXCEPT ![c] =
                            [calls[c] EXCEPT
                                !.pc = "embedding",
                                !.textCorpus = Some(CorpusOf(kinds)),
                                !.sentenceObjectArray =
                                    structureSubtitles(
                                        CorpusOf(kinds),
                                        calls[c].config.bufferSize)]]
    /\ UNCHANGED <<call, providerVectors, pc, config, textCorpus, batch, embedCalls,
                   sentenceObjectArray, distances, threshold, shiftIndices,
                   chunks, mergedChunks, i, result, error, embedState, held>>

\* loadTextFile of one call rejects.
ConcurrentLoadRejected ==
    /\ call = "concurrent"
    /\ \E c \in CallIds :
          /\ calls[c].pc = "loading"
          /\ calls' = [calls EXCEPT ![c] =
                          [calls[c] EXCEPT !.pc = "failed",
                                           !.error = Some("LoadError")]]
    /\ UNCHANGED <<call, providerVectors, pc, config, textCorpus, batch, embedCalls,
                   sentenceObjectArray, distances, threshold, shiftIndices,
                   chunks, mergedChunks, i, result, error, embedState, held>>

\* One call resumes from embedDocuments with its vectors and runs to its
\* return or throw without suspending again (EmbeddingService.ts 59-67,
\* processTextFile 67-79).
ConcurrentEmbedResolved ==
    /\ call = "concurrent"
    /\ \E c \in CallIds :
          /\ calls[c].pc = "embedding"
          /\ \E embeddingsArray \in
                   [1..Len(combinedSentencesStrings(
                               calls[c].sentenceObjectArray))
                       -> ConcurrentVectors] :
                LET attached == generateAndAttachEmbeddings(
                                    calls[c].sentenceObjectArray,
                                    embeddingsArray)
                    out == chunksOf(attached.returned,
                                    calls[c].config.percentileThreshold)
                IN  calls' = [calls EXCEPT ![c] =
                        [calls[c] EXCEPT
                            !.pc = IF IsSome(out.error) THEN "failed"
                                   ELSE "done",
                            !.embeddingsArray = Some(embeddingsArray),
                            !.overlapped =
                                (calls[OtherCall(c)].pc = "embedding"),
                            !.error = out.error,
                            !.result = IF IsSome(out.error) THEN None
                                       ELSE Some(out.chunks)]]
    /\ UNCHANGED <<call, providerVectors, pc, config, textCorpus, batch, embedCalls,
                   sentenceObjectArray, distances, threshold, shiftIndices,
                   chunks, mergedChunks, i, result, error, embedState, held>>

\* embedDocuments of one call rejects.
ConcurrentEmbedRejected ==
    /\ call = "concurrent"
    /\ \E c \in CallIds :
          /\ calls[c].pc = "embedding"
          /\ calls' = [calls EXCEPT ![c] =
                          [calls[c] EXCEPT !.pc = "failed",
                                           !.error = Some("EmbeddingError")]]
    /\ UNCHANGED <<call, providerVectors, pc, config, textCorpus, batch, embedCalls,
                   sentenceObjectArray, distances, threshold, shiftIndices,
                   chunks, mergedChunks, i, result, error, embedState, held>>

NextConcurrent ==
    \/ ConcurrentLoadResolved
    \/ ConcurrentLoadRejected
    \/ ConcurrentEmbedResolved
    \/ ConcurrentEmbedRejected

SpecConcurrent == InitConcurrent /\ [][NextConcurrent]_vars

----------------------------------------------------------------------------
(* Every operation a client can invoke *)

Init ==
    \/ InitProcess
    \/ InitGroup
    \/ InitShifts
    \/ InitWindow
    \/ InitParse
    \/ InitConcurrent
    \/ InitProfile
    \/ InitAttach

Next ==
    \/ NextProcess
    \/ NextGroup
    \/ NextShifts
    \/ NextWindow
    \/ NextParse
    \/ NextConcurrent
    \/ NextProfile
    \/ NextAttach

Spec == Init /\ [][Next]_vars

----------------------------------------------------------------------------
(* Properties *)

InGroupCall == call = "groupSentencesIntoChunks"
InShiftsCall == call = "calculateCosineDistancesAndSignificantShifts"
InProcessCall == call = "processTextFile"

NumUnits == Len(sentenceObjectArray)

RECURSIVE SumCounts(_)
SumCounts(cs) ==
    IF Len(cs) = 0 THEN 0
    ELSE cs[1].metadata.sentenceCount + SumCounts(Tail(cs))

\* The processing call has ended after both of its awaits resolved.
Returned ==
    /\ InProcessCall
    /\ pc \in {"done", "failed"}
    /\ error \notin {Some("LoadError"), Some("EmbeddingError")}

\* C1: for a non-empty unit sequence and a strictly ascending shift list
\* within 0..n-2, groupSentencesIntoChunks returns chunks whose
\* [startSentenceIndex, endSentenceIndex] ranges partition [0, n-1]: the
\* first starts at 0, the last ends at n-1, each starts at the previous
\* end + 1.
C1_RangesPartition ==
    (InGroupCall /\ NumUnits >= 1) =>
        /\ pc # "failed"
        /\ pc = "done" =>
            LET r == result[1]
            IN  /\ Len(r) >= 1
                /\ r[1].metadata.startSentenceIndex = 0
                /\ r[Len(r)].metadata.endSentenceIndex = NumUnits - 1
                /\ \A k \in 1..Len(r) :
                      r[k].metadata.startSentenceIndex
                          <= r[k].metadata.endSentenceIndex
                /\ \A k \in 2..Len(r) :
                      r[k].metadata.startSentenceIndex
                          = r[k - 1].metadata.endSentenceIndex + 1

\* A call that returned several chunks after at least one merge.
C1_Witness ==
    /\ InGroupCall /\ pc = "done" /\ NumUnits >= 4
    /\ Len(result[1]) >= 2
    /\ Len(result[1]) < Len(chunks)

\* C2: for n >= 1 units the sentenceCount of the chunks returned by
\* groupSentencesIntoChunks sums to n.
C2_CountsSumToN ==
    (InGroupCall /\ pc = "done" /\ NumUnits >= 1) => SumCounts(result[1]) = NumUnits

\* A call whose result holds a chunk merged from three raw chunks.
C2_Witness ==
    /\ InGroupCall /\ pc = "done" /\ NumUnits >= 4
    /\ Len(chunks) - Len(result[1]) >= 2
    /\ SumCounts(result[1]) = NumUnits

\* C6: for n >= 2 units every chunk returned by groupSentencesIntoChunks
\* has sentenceCount >= 2, although the merge is one left-to-right pass.
C6_NoShortChunk ==
    (InGroupCall /\ pc = "done" /\ NumUnits >= 2) =>
        \A k \in 1..Len(result[1]) : result[1][k].metadata.sentenceCount >= 2

\* A call whose raw chunks held a one-unit chunk between two others.
C6_Witness ==
    /\ InGroupCall /\ pc = "done"
    /\ \E k \in 2..(Len(chunks) - 1) : chunks[k].metadata.sentenceCount = 1
    /\ Len(result[1]) >= 2

\* C10: in the merge pass a raw chunk below the threshold is merged into
\* the most recent output chunk whenever an output chunk exists, with or
\* without a next raw chunk; the next raw chunk is left for its own turn.
\* A one-unit group after a four-unit group yields one five-unit chunk.
C10_ShortJoinsPrevious ==
    /\ [][(/\ InGroupCall /\ pc = "merging" /\ i < Len(chunks)
           /\ chunks[i + 1].metadata.sentenceCount < minSentencesDefault
           /\ Len(mergedChunks) > 0)
          => LET last == Len(mergedChunks)
                 prev == mergedChunks[last].metadata
                 cur == chunks[i + 1].metadata
                 new == mergedChunks'[last].metadata
             IN  /\ i' = i + 1
                 /\ chunks' = chunks
                 /\ Len(mergedChunks') = last
                 /\ \A k \in 1..(last - 1) : mergedChunks'[k] = mergedChunks[k]
                 /\ new.sentenceCount = prev.sentenceCount + cur.sentenceCount
                 /\ new.startSentenceIndex = prev.startSentenceIndex
                 /\ new.endSentenceIndex = cur.endSentenceIndex]_vars
    /\ []((InGroupCall /\ pc = "done" /\ NumUnits = 5 /\ shiftIndices = <<3>>)
          => /\ Len(result[1]) = 1
             /\ result[1][1].metadata.sentenceCount = 5)

\* The pass stands at a short chunk with an output chunk behind it and a
\* raw chunk ahead of it.
C10_Witness ==
    /\ InGroupCall /\ pc = "merging"
    /\ i >= 1 /\ i + 1 < Len(chunks)
    /\ Len(mergedChunks) > 0
    /\ chunks[i + 1].metadata.sentenceCount = 1
    /\ chunks[i + 2].metadata.sentenceCount >= 2

\* C7: the shift indices are exactly the positions k of the distance array
\* D with D[k] strictly above the threshold, in ascending order; a distance
\* equal to the threshold is never a shift index.
C7_ShiftsAreStrictlyAbove ==
    (InShiftsCall /\ pc = "done") =>
        /\ \A k \in 0..(Len(distances) - 1) :
              (\E j \in 1..Len(shiftIndices) : shiftIndices[j] = k)
                  <=> Percent * distances[k + 1] > threshold[1]
        /\ \A j \in 1..Len(shiftIndices) :
              shiftIndices[j] \in 0..(Len(distances) - 1)
        /\ \A j \in 2..Len(shiftIndices) :
              shiftIndices[j - 1] < shiftIndices[j]

\* A distance array with one distance above the threshold and an earlier
\* one equal to it.
C7_Witness ==
    /\ InShiftsCall /\ pc = "done"
    /\ Len(shiftIndices) >= 1
    /\ \E k \in 1..Len(distances) :
          /\ Percent * distances[k] = threshold[1]
          /\ k - 1 < shiftIndices[1]

\* C8: the threshold is the linear-interpolation (R-7) quantile of the
\* ascending distances: h = (m-1)*p, lo = floor(h), hi = ceil(h),
\* threshold = x[lo] + (h-lo)*(x[hi]-x[lo]); distances
\* [0.10, 0.15, 0.20, 0.90] at percentile 90 give 0.69 and the shift index 3.
C8_ThresholdIsR7 ==
    (InShiftsCall /\ pc = "done") =>
        LET x == sortAscending(distances)
            m == Len(distances)
            hTimesPercent == (m - 1) * config.percentileThreshold
            lo == hTimesPercent \div Percent
            hi == (hTimesPercent + Percent - 1) \div Percent
        IN  /\ threshold = Some(Percent * x[lo + 1]
                   + (hTimesPercent - Percent * lo) * (x[hi + 1] - x[lo + 1]))
            /\ (distances = <<10, 15, 20, 90>>
                  /\ config.percentileThreshold = 90)
               => (threshold = Some(6900) /\ shiftIndices = <<3>>)

\* The four distances of the example at percentile 90.
C8_Witness ==
    /\ InShiftsCall /\ pc = "done"
    /\ distances = <<10, 15, 20, 90>>
    /\ config.percentileThreshold = 90
    /\ threshold = Some(6900)

\* C9: with percentileThreshold = 100 and a non-empty distance array no
\* shift index is returned, so the grouping of a processing call yields
\* exactly one chunk covering all n units.
C9_Percentile100OneChunk ==
    /\ (InShiftsCall /\ pc # "distances" /\ config.percentileThreshold = 100
           /\ Len(distances) > 0) =>
          (pc = "done" /\ shiftIndices = <<>>)
    /\ (Returned /\ config.percentileThreshold = 100 /\ Len(distances) > 0) =>
          /\ pc = "done"
          /\ shiftIndices = <<>>
          /\ Len(chunks) = 1
          /\ Len(result[1]) = 1
          /\ result[1][1].metadata.sentenceCount = NumUnits
          /\ result[1][1].metadata.startSentenceIndex = 0
          /\ result[1][1].metadata.endSentenceIndex = NumUnits - 1

\* A processing call at percentile 100 over three units with two different
\* distances.
C9_Witness ==
    /\ Returned /\ pc = "done" /\ config.percentileThreshold = 100
    /\ Len(distances) >= 2
    /\ distances[1] # distances[2]

\* C4: when the distance array is empty (fewer than 2 units) the distance
\* stage fails with its threshold error, which reaches the caller of the
\* processing call; no default threshold and no shift list is produced.
C4_EmptyDistancesFail ==
    /\ (InShiftsCall /\ pc # "distances" /\ Len(distances) = 0) =>
          /\ pc = "failed"
          /\ error = Some(thresholdError)
          /\ threshold = None
          /\ result = None
    /\ (Returned /\ Len(distances) = 0) =>
          /\ NumUnits < 2
          /\ pc = "failed"
          /\ error = Some(thresholdError)
          /\ threshold = None
          /\ shiftIndices = <<>>
          /\ result = None
    /\ (Returned /\ NumUnits < 2) => Len(distances) = 0

\* A processing call over exactly one unit that has ended.
C4_Witness ==
    /\ Returned /\ NumUnits = 1 /\ Len(distances) = 0 /\ pc = "failed"

\* C3 as stated: an empty input sequence makes the processing call return
\* an empty chunk list, with no error.
C3_Original ==
    (Returned /\ NumUnits = 0) => (pc = "done" /\ result = Some(<<>>) /\ error = None)

\* C3 amended: an empty input sequence makes the processing call fail with
\* the threshold error of the distance stage; no chunk list is returned.
C3_EmptyInputFails ==
    (Returned /\ NumUnits = 0) =>
        (pc = "failed" /\ error = Some(thresholdError) /\ result = None)

\* A processing call over a text without any well-formed block has ended.
C3_Witness ==
    /\ Returned /\ NumUnits = 0 /\ IsSome(textCorpus) /\ pc = "failed"
    /\ embedCalls = 1

\* C5 as stated: with exactly 1 unit the processing call returns exactly one
\* chunk of size 1 (sentenceCount 1, start and end index 0).
C5_Original ==
    (Returned /\ NumUnits = 1) =>
        /\ pc = "done"
        /\ Len(result[1]) = 1
        /\ result[1][1].metadata.sentenceCount = 1
        /\ result[1][1].metadata.startSentenceIndex = 0
        /\ result[1][1].metadata.endSentenceIndex = 0

\* C5 amended: with exactly 1 unit groupSentencesIntoChunks returns exactly
\* one chunk of size 1 (sentenceCount 1, start and end index 0), the raw
\* chunk kept unmerged; a processing call over 1 unit fails with the
\* threshold error before the grouping and returns no chunk.
C5_SingleUnit ==
    /\ (InGroupCall /\ pc = "done" /\ NumUnits = 1) =>
          /\ Len(result[1]) = 1
          /\ result[1][1] = chunks[1]
          /\ result[1][1].metadata.sentenceCount = 1
          /\ result[1][1].metadata.startSentenceIndex = 0
          /\ result[1][1].metadata.endSentenceIndex = 0
    /\ (Returned /\ NumUnits = 1) =>
          (pc = "failed" /\ error = Some(thresholdError) /\ result = None)

\* A direct grouping call over one unit has returned.
C5_Witness ==
    /\ InGroupCall /\ pc = "done" /\ NumUnits = 1 /\ Len(chunks) = 1
    /\ Len(result[1]) = 1

\* The pass stands at a raw chunk below the minimum.
AtShortChunk ==
    /\ InGroupCall /\ pc = "merging" /\ i < Len(chunks)
    /\ chunks[i + 1].metadata.sentenceCount < minSentencesDefault

\* C11: a short raw chunk with no previous output chunk but with a next raw
\* chunk is merged with that next raw chunk into one output chunk and both
\* are consumed, whatever the size of the next raw chunk.
C11_ShortFirstJoinsNext ==
    [][(AtShortChunk /\ Len(mergedChunks) = 0 /\ i + 1 < Len(chunks))
       => LET cur == chunks[i + 1].metadata
              nxt == chunks[i + 2].metadata
              new == mergedChunks'[1].metadata
          IN  /\ i' = i + 2
              /\ chunks' = chunks
              /\ Len(mergedChunks') = 1
              /\ new.sentenceCount = cur.sentenceCount + nxt.sentenceCount
              /\ new.startSentenceIndex = cur.startSentenceIndex
              /\ new.endSentenceIndex = nxt.endSentenceIndex]_vars

\* The first raw chunk was short, was merged with a longer second one, and
\* the pass stands behind both with raw chunks left.
C11_Witness ==
    /\ InGroupCall /\ pc = "merging" /\ i = 2 /\ Len(chunks) >= 3
    /\ Len(mergedChunks) = 1
    /\ chunks[1].metadata.sentenceCount = 1
    /\ chunks[2].metadata.sentenceCount >= 2
    /\ mergedChunks[1].metadata.sentenceCount >= 3

\* C12: merging (earlier, later) yields the earlier content, one space, the
\* later content; subtitleIndex, startTime and startSentenceIndex of the
\* earlier chunk; endTime and endSentenceIndex of the later chunk; the sum
\* of the counts; timestamp "startTime --> endTime" exactly when both times
\* are present.
C12_MergedFields ==
    [][(AtShortChunk /\ (Len(mergedChunks) > 0 \/ i + 1 < Len(chunks)))
       => LET hasPrevious == Len(mergedChunks) > 0
              earlier == IF hasPrevious THEN mergedChunks[Len(mergedChunks)]
                         ELSE chunks[i + 1]
              later == IF hasPrevious THEN chunks[i + 1] ELSE chunks[i + 2]
              new == mergedChunks'[Len(mergedChunks')]
              e == earlier.metadata
              l == later.metadata
              m == new.metadata
          IN  /\ new.content = earlier.content \o <<" ">> \o later.content
              /\ m.subtitleIndex = e.subtitleIndex
              /\ m.startTime = e.startTime
              /\ m.startSentenceIndex = e.startSentenceIndex
              /\ m.endTime = l.endTime
              /\ m.endSentenceIndex = l.endSentenceIndex
              /\ m.sentenceCount = e.sentenceCount + l.sentenceCount
              /\ IF IsSome(e.startTime) /\ IsSome(l.endTime)
                 THEN m.timestamp
                         = Some(e.startTime[1] \o " --> " \o l.endTime[1])
                 ELSE m.timestamp = None]_vars

\* A merge has replaced an output chunk that had a timestamp by one without:
\* the later chunk had no end time.
C12_Witness ==
    /\ InGroupCall /\ pc = "merging" /\ i >= 2
    /\ Len(mergedChunks) = 1
    /\ mergedChunks[1].metadata.sentenceCount > chunks[1].metadata.sentenceCount
    /\ IsSome(chunks[1].metadata.timestamp)
    /\ mergedChunks[1].metadata.timestamp = None
    /\ IsSome(mergedChunks[1].metadata.startTime)

\* The units startSentenceIndex..endSentenceIndex of a chunk.
UnitsOfChunk(c) ==
    SubSeq(sentenceObjectArray, c.metadata.startSentenceIndex + 1,
           c.metadata.endSentenceIndex + 1)

\* C13: for every final chunk built from units that all carry
\* sourceMetadata, subtitleIndex and startTime are those of the unit at
\* startSentenceIndex, endTime that of the unit at endSentenceIndex, and
\* timestamp is "{startTime} --> {endTime}" of those two.
C13_MetadataOfEndUnits ==
    ((InGroupCall \/ InProcessCall) /\ pc = "done") =>
        \A k \in 1..Len(result[1]) :
           LET c == result[1][k]
               us == UnitsOfChunk(c)
           IN  (\A j \in 1..Len(us) : IsSome(us[j].metadata)) =>
                  LET first == us[1].metadata[1]
                      last == us[Len(us)].metadata[1]
                  IN  /\ c.metadata.subtitleIndex = first.subtitleIndex
                      /\ c.metadata.startTime = first.startTime
                      /\ c.metadata.endTime = last.endTime
                      /\ c.metadata.timestamp =
                            Some(first.startTime[1] \o " --> "
                                 \o last.endTime[1])

\* A final chunk merged from three raw chunks whose units all carry
\* metadata.
C13_Witness ==
    /\ InGroupCall /\ pc = "done"
    /\ Len(chunks) - Len(result[1]) >= 2
    /\ NumUnits >= 4
    /\ \A j \in 1..NumUnits : IsSome(sentenceObjectArray[j].metadata)

\* C14: each final chunk's content is the contents of its units
\* startSentenceIndex..endSentenceIndex joined by single spaces, so the
\* chunk contents joined by single spaces equal the unit contents joined by
\* single spaces.
C14_ContentIsJoinedUnits ==
    (InGroupCall /\ pc = "done" /\ NumUnits >= 1) =>
        LET r == result[1]
        IN  /\ \A k \in 1..Len(r) :
                  r[k].content =
                     Join([j \in 1..Len(UnitsOfChunk(r[k])) |->
                              UnitsOfChunk(r[k])[j].sentence], <<" ">>)
            /\ Join([k \in 1..Len(r) |-> r[k].content], <<" ">>)
                  = Join([j \in 1..NumUnits |->
                             sentenceObjectArray[j].sentence], <<" ">>)

\* A result of two or more chunks, one of them merged.
C14_Witness ==
    /\ InGroupCall /\ pc = "done" /\ NumUnits >= 5
    /\ Len(result[1]) >= 2
    /\ Len(chunks) > Len(result[1])
    /\ \E k \in 1..Len(result[1]) : Len(result[1][k].content) >= 5

InWindowCall == call = "structureSentences"

\* The unit sequence carries its combined sentences.
Structured ==
    \/ InWindowCall /\ pc = "done"
    \/ InProcessCall /\ pc = "embedding"

\* The sentences of the units at the 0-based positions from..to.
SentencesBetween(from, to) ==
    [j \in 1..(to - from + 1) |-> sentenceObjectArray[from + j].sentence]

\* The context window of the unit at 0-based position k, from the contract:
\* preceding units each followed by a space, the unit and a space, the
\* following units with no separator, trimmed.
ContractWindow(k, bufferSize) ==
    LET lo == IF k - bufferSize < 0 THEN 0 ELSE k - bufferSize
        hi == IF k + bufferSize > NumUnits - 1 THEN NumUnits - 1
              ELSE k + bufferSize
    IN  Trim(Join(SentencesBetween(lo, k), <<" ">>) \o <<" ">>
             \o Join(SentencesBetween(k + 1, hi), <<>>))

\* C15: for every unit at position k and non-negative bufferSize the context
\* window built by structureSentences / structureSubtitles is the contents
\* of units k-bufferSize..k-1 (clipped at 0) each followed by one space, the
\* unit's content and one space, the contents of units k+1..k+bufferSize
\* (clipped at n-1) with no separator, the whole trimmed.
C15_WindowContract ==
    /\ Structured =>
          \A k \in 0..(NumUnits - 1) :
             sentenceObjectArray[k + 1].combined_sentence
                = Some(ContractWindow(k, config.bufferSize))
    /\ (InWindowCall /\ pc = "done" /\ config.bufferSize = 2
           /\ SentencesBetween(0, NumUnits - 1) = <<<<"a">>, <<"b">>, <<"a">>>>)
       => sentenceObjectArray[1].combined_sentence
             = Some(<<"a", " ", "b", "a">>)

\* Three plain sentences at bufferSize 2: the first window holds two
\* following sentences.
C15_Witness ==
    /\ InWindowCall /\ pc = "done" /\ config.bufferSize = 2
    /\ SentencesBetween(0, NumUnits - 1) = <<<<"a">>, <<"b">>, <<"a">>>>
    /\ sentenceObjectArray[1].combined_sentence = Some(<<"a", " ", "b", "a">>)

\* C16 as stated: with bufferSize = 0 the context window of every unit
\* equals that unit's own content.
C16_Original ==
    (Structured /\ config.bufferSize = 0) =>
        \A k \in 1..NumUnits :
           sentenceObjectArray[k].combined_sentence
              = Some(sentenceObjectArray[k].sentence)

\* C16 amended: with bufferSize = 0 the context window of every unit equals
\* that unit's own content trimmed of leading and trailing whitespace; it
\* is the content itself for every unit of a processing call, whose
\* contents the subtitle parser has trimmed.
C16_WindowIsTrimmedContent ==
    /\ (Structured /\ config.bufferSize = 0) =>
          \A k \in 1..NumUnits :
             sentenceObjectArray[k].combined_sentence
                = Some(Trim(sentenceObjectArray[k].sentence))
    /\ (InProcessCall /\ pc = "embedding" /\ config.bufferSize = 0) =>
          \A k \in 1..NumUnits :
             sentenceObjectArray[k].combined_sentence
                = Some(sentenceObjectArray[k].sentence)

\* A structureSentences call at bufferSize 0 over a sentence with a leading
\* space and a plain one.
C16_Witness ==
    /\ InWindowCall /\ pc = "done" /\ config.bufferSize = 0
    /\ NumUnits >= 2
    /\ sentenceObjectArray[1].sentence = <<" ", "c">>
    /\ sentenceObjectArray[1].combined_sentence = Some(<<"c">>)
    /\ sentenceObjectArray[2].combined_sentence = Some(<<"a">>)

\* C17: a processing call returns no chunk list while its embedding batch
\* is in flight or after it has failed.  Until embedDocuments has resolved,
\* no stage has run: no distances, no chunks, no result.  If embedDocuments
\* rejects, the call has failed with the provider's error, nothing was
\* produced, and embedDocuments was called once only.
C17_ChunksOnlyAfterEmbedding ==
    InProcessCall =>
        /\ (embedState \in {"none", "inFlight"}) =>
              /\ result = None
              /\ chunks = <<>>
              /\ distances = <<>>
              /\ threshold = None
              /\ held = <<>>
        /\ (embedState = "inFlight") => (pc = "embedding" /\ error = None)
        /\ (embedState = "rejected") =>
              /\ pc = "failed"
              /\ error = Some("EmbeddingError")
              /\ result = None
              /\ chunks = <<>>
              /\ distances = <<>>
              /\ threshold = None
              /\ held = <<>>
              /\ embedCalls = 1
        /\ (result # None \/ held # <<>>) => embedState = "resolved"

C17_Witness ==
    /\ InProcessCall
    /\ embedState = "rejected"
    /\ pc = "failed"
    /\ NumUnits >= 2
    /\ error = Some("EmbeddingError")

\* The positions (1-based) of the units that have a combined sentence.
UnitsWithWindow ==
    {k \in 1..NumUnits : IsSome(sentenceObjectArray[k].combined_sentence)}

\* C18: a processing call whose units have been built has called
\* embedDocuments exactly once, and never more than once; while that call is
\* in flight its batch holds, in unit order, the combined sentence of every
\* unit that has one, and nothing else.
C18_OneBatchInUnitOrder ==
    InProcessCall =>
        /\ embedCalls <= 1
        /\ (embedState # "none") => embedCalls = 1
        /\ (pc = "embedding") =>
              /\ IsSome(batch)
              /\ Len(batch[1]) = Cardinality(UnitsWithWindow)
              /\ \A k \in UnitsWithWindow :
                    batch[1][Cardinality({j \in UnitsWithWindow : j < k}) + 1]
                        = sentenceObjectArray[k].combined_sentence[1]

C18_Witness ==
    /\ InProcessCall
    /\ pc = "embedding"
    /\ embedCalls = 1
    /\ NumUnits >= 3
    /\ config.bufferSize = 1
    /\ Len(batch[1]) = 3
    /\ batch[1][1] # batch[1][2]
    /\ batch[1][2] # batch[1][3]

C20_Original ==
    (Returned /\ IsSome(textCorpus)) =>
        LET sentences == splitToSentencesUsingNLP(textCorpus[1])
        IN  /\ [k \in 1..NumUnits |-> sentenceObjectArray[k].sentence]
                  = sentences
            /\ (~isSubtitleFormat(textCorpus[1]) /\ Len(sentences) >= 2) =>
                  /\ pc = "done"
                  /\ IsSome(result)
                  /\ SumCounts(result[1]) = Len(sentences)

InParseCall == call = "parseSubtitles"

\* The trimmed non-empty lines of block k (1-based) of the parsed text.
LinesOfBlock(k) == trimmedLines(textCorpus[1][k])

\* Block k is well-formed: an integer on line 1, the timestamp pattern on
\* line 2, and at least one content line.
WellFormedBlock(k) ==
    /\ Len(LinesOfBlock(k)) >= 3
    /\ IsSome(parseInt(LinesOfBlock(k)[1]))
    /\ IsSome(timestampMatch(LinesOfBlock(k)[2]))

WellFormedBlocks ==
    {k \in 1..Len(textCorpus[1]) : WellFormedBlock(k)}

\* C21: parseSubtitles raises no error and returns, in input order, one
\* entry per well-formed block and nothing else: the entry of a well-formed
\* block has the integer of line 1 as subtitleIndex, the two times of
\* line 2 as startTime and endTime, and the remaining lines joined by single
\* spaces as content, whatever the other blocks of the text are.
C21_OneEntryPerWellFormedBlock ==
    (InParseCall /\ pc = "done") =>
        /\ error = None
        /\ IsSome(result)
        /\ Len(result[1]) = Cardinality(WellFormedBlocks)
        /\ \A k \in WellFormedBlocks :
              LET lines == LinesOfBlock(k)
                  entry == result[1][
                      Cardinality({j \in WellFormedBlocks : j < k}) + 1]
              IN  /\ entry.metadata.subtitleIndex = parseInt(lines[1])
                  /\ entry.metadata.startTime =
                        Some(timestampMatch(lines[2])[1].startTime)
                  /\ entry.metadata.endTime =
                        Some(timestampMatch(lines[2])[1].endTime)
                  /\ entry.content =
                        Join(SubSeq(lines, 3, Len(lines)), <<" ">>)

C21_Witness ==
    /\ InParseCall
    /\ pc = "done"
    /\ Len(textCorpus[1]) = 3
    /\ ~WellFormedBlock(2)
    /\ Len(result[1]) = 2
    /\ result[1][1].metadata.subtitleIndex = Some(3)
    /\ result[1][1].metadata.startTime = Some(TimeChars(2))
    /\ result[1][1].metadata.endTime = Some(TimeChars(3))
    /\ result[1][1].content = <<"d">>
    /\ result[1][2].metadata.subtitleIndex = Some(12)
    /\ result[1][2].content = <<"b", " ", "c">>

InConcurrentCalls == call = "concurrent"

\* What a call with this config returns or throws when it runs alone on
\* this text and the provider answers with these vectors (lines 46-79).
RunAlone(cfg, blocks, embeddingsArray) ==
    chunksOf(attachEmbeddings(structureSubtitles(blocks, cfg.bufferSize),
                              embeddingsArray),
             cfg.percentileThreshold)

\* C22: two processing calls on one service instance that interleave at
\* their awaits each end as they would alone.  A call suspended at its
\* embedding await holds the units of its own text, and a call that resumed
\* from it returns the chunk list (or throws the error) that its own
\* config, text and vectors give.
C22_InterleavedCallsRunAsAlone ==
    InConcurrentCalls =>
        \A c \in CallIds :
            /\ (calls[c].pc = "embedding") =>
                  calls[c].sentenceObjectArray =
                      structureSubtitles(calls[c].textCorpus[1],
                                         calls[c].config.bufferSize)
            /\ IsSome(calls[c].embeddingsArray) =>
                  LET alone == RunAlone(calls[c].config,
                                        calls[c].textCorpus[1],
                                        calls[c].embeddingsArray[1])
                  IN  /\ calls[c].error = alone.error
                      /\ calls[c].pc =
                            IF IsSome(alone.error) THEN "failed" ELSE "done"
                      /\ IsSome(alone.error) => calls[c].result = None
                      /\ ~IsSome(alone.error) =>
                            calls[c].result = Some(alone.chunks)

C22_Witness ==
    /\ InConcurrentCalls
    /\ calls[1].pc = "done"
    /\ calls[2].pc = "done"
    /\ calls[1].overlapped
    /\ calls[1].textCorpus # calls[2].textCorpus
    /\ Len(calls[1].sentenceObjectArray) = 3
    /\ Len(calls[2].sentenceObjectArray) = 2
    /\ Len(calls[1].result[1]) >= 1
    /\ calls[1].result # calls[2].result

InProfileCall == call = "distanceStage"

\* C23: in the sequence that the distance stage returns for n >= 2 units,
\* distance_to_next is defined for every unit but the last and undefined
\* for the last, and the distance array holds those values in unit order:
\* distances[i] is the distance_to_next of unit i, for i in 0..n-2.
C23_Original ==
    (InProfileCall /\ pc = "done" /\ NumUnits >= 2) =>
        /\ Len(distances) = NumUnits - 1
        /\ \A k \in 1..(NumUnits - 1) :
              /\ IsSome(sentenceObjectArray[k].distance_to_next)
              /\ sentenceObjectArray[k].distance_to_next = Some(distances[k])
        /\ sentenceObjectArray[NumUnits].distance_to_next = None

\* The positions k (1-based) of the units that, with their successor,
\* carry an embedding: the pairs the distance stage computes.
EmbeddedPairs ==
    {k \in 1..(NumUnits - 1) :
        /\ IsSome(sentenceObjectArray[k].combined_sentence_embedding)
        /\ IsSome(sentenceObjectArray[k + 1].combined_sentence_embedding)}

\* The norm of the vector is exactly zero.
IsZeroVector(vec) == \A j \in 1..Len(vec) : vec[j] = 0

\* The pairs of which one embedding has norm zero.
ZeroNormPairs ==
    {k \in EmbeddedPairs :
        \/ IsZeroVector(sentenceObjectArray[k].combined_sentence_embedding[1])
        \/ IsZeroVector(
               sentenceObjectArray[k + 1].combined_sentence_embedding[1])}

\* C24: when an embedding of a consecutive pair has norm exactly zero, the
\* distance stage raises no error, records a distance of exactly 1 for that
\* pair, and still records a distance for every other pair of embeddings.
C24_ZeroNormDistanceIsOne ==
    (InProfileCall /\ pc \in {"done", "failed"} /\ ZeroNormPairs # {}) =>
        /\ pc = "done"
        /\ error = None
        /\ \A k \in ZeroNormPairs :
              sentenceObjectArray[k].distance_to_next = Some(One)
        /\ \A k \in EmbeddedPairs :
              IsSome(sentenceObjectArray[k].distance_to_next)
        /\ Len(distances) = Cardinality(EmbeddedPairs)

C24_Witness ==
    /\ InProfileCall
    /\ pc = "done"
    /\ NumUnits = 4
    /\ EmbeddedPairs = {1, 2, 3}
    /\ ZeroNormPairs = {1, 2}
    /\ distances = <<One, One, 40>>

\* C26: for every input array of the distance stage, also one in which
\* some units have no embedding, every returned shift index i is the
\* boundary after unit i: the distance_to_next of unit i of the returned
\* array is defined and strictly greater than the threshold.
C26_Original ==
    (InProfileCall /\ pc = "done") =>
        \A j \in 1..Len(shiftIndices) :
            LET unit == sentenceObjectArray[shiftIndices[j] + 1]
            IN  /\ IsSome(unit.distance_to_next)
                /\ Percent * unit.distance_to_next[1] > threshold[1]

InAttachCall == call = "generateAndAttachEmbeddings"

\* C25: generateAndAttachEmbeddings returns a sequence of the length and
\* order of its input; the k-th unit that has a combined sentence carries
\* the k-th vector the provider returned, and a unit without a combined
\* sentence carries the embedding it had, if any.
C25_VectorsAttachedInOrder ==
    (InAttachCall /\ pc = "done") =>
        /\ Len(result[1]) = NumUnits
        /\ Len(providerVectors[1]) = Cardinality(UnitsWithWindow)
        /\ \A k \in 1..NumUnits :
              LET before == sentenceObjectArray[k]
                  after == result[1][k]
              IN  /\ after.sentence = before.sentence
                  /\ after.index = before.index
                  /\ after.combined_sentence = before.combined_sentence
                  /\ after.combined_sentence_embedding =
                        IF k \in UnitsWithWindow
                        THEN Some(providerVectors[1][
                                 Cardinality({j \in UnitsWithWindow : j <= k})])
                        ELSE before.combined_sentence_embedding

C25_Witness ==
    /\ InAttachCall
    /\ pc = "done"
    /\ NumUnits = 3
    /\ UnitsWithWindow = {2, 3}
    /\ sentenceObjectArray[1].combined_sentence_embedding = Some(<<4, 3>>)
    /\ providerVectors = Some(<< <<5, 0>>, <<0, 5>> >>)
    /\ result[1][1].combined_sentence_embedding = Some(<<4, 3>>)
    /\ result[1][2].combined_sentence_embedding = Some(<<5, 0>>)
    /\ result[1][3].combined_sentence_embedding = Some(<<0, 5>>)

\* Every unit of the call carries an embedding.
AllEmbedded ==
    \A k \in 1..NumUnits :
        IsSome(sentenceObjectArray[k].combined_sentence_embedding)

\* C27: when every one of n >= 2 units has an embedding, the distance stage
\* returns shift indices that are strictly ascending (hence distinct) and
\* within 0..n-2, so that every group the grouping forEach slices from them
\* and from the appended n-1 is non-empty and nothing throws.
C27_ShiftsAscendingGroupsNonEmpty ==
    ((InProfileCall \/ InProcessCall) /\ pc \in {"done", "failed"}
        /\ NumUnits >= 2 /\ AllEmbedded) =>
        /\ pc = "done"
        /\ \A j \in 1..Len(shiftIndices) :
              shiftIndices[j] \in 0..(NumUnits - 2)
        /\ \A j \in 1..(Len(shiftIndices) - 1) :
              shiftIndices[j] < shiftIndices[j + 1]
        /\ LET raw == rawChunks(sentenceObjectArray, shiftIndices)
           IN  /\ raw.error = None
               /\ Len(raw.chunks) = Len(shiftIndices) + 1
               /\ \A k \in 1..Len(raw.chunks) :
                     raw.chunks[k].metadata.sentenceCount >= 1
               /\ InProcessCall => chunks = raw.chunks

C27_Witness ==
    /\ InProfileCall
    /\ pc = "done"
    /\ NumUnits = 4
    /\ AllEmbedded
    /\ shiftIndices = <<0, 2>>
    /\ Len(rawChunks(sentenceObjectArray, shiftIndices).chunks) = 3

\* The smallest value of a non-empty distance array.
MinDistance(ds) ==
    CHOOSE x \in {ds[k] : k \in 1..Len(ds)} :
        \A k \in 1..Len(ds) : x <= ds[k]

ShiftSet == {shiftIndices[j] : j \in 1..Len(shiftIndices)}

\* C29: the merge pass only removes boundaries.  Every chunk that
\* groupSentencesIntoChunks returns, except the last, ends at one of the
\* shift indices passed to the call, and the returned list is not longer
\* than the list of raw groups.
C29_MergeOnlyRemovesBoundaries ==
    ((InGroupCall \/ InProcessCall) /\ pc = "done") =>
        /\ Len(result[1]) <= Len(chunks)
        /\ \A k \in 1..(Len(result[1]) - 1) :
              result[1][k].metadata.endSentenceIndex \in ShiftSet

C29_Witness ==
    /\ InGroupCall
    /\ pc = "done"
    /\ NumUnits = 5
    /\ shiftIndices = <<1, 2>>
    /\ Len(chunks) = 3
    /\ Len(result[1]) = 2
    /\ result[1][1].metadata.endSentenceIndex = 2

\* The boundary after raw group j (1-based) is the end of a returned chunk
\* other than the last.
BoundarySurvives(j) ==
    \E k \in 1..(Len(result[1]) - 1) :
        result[1][k].metadata.endSentenceIndex
            = chunks[j].metadata.endSentenceIndex

\* C30: the boundary between two consecutive raw groups survives into the
\* returned chunks exactly when the later group has at least 2 units and
\* the earlier one is not a single-unit first group; and the merge pass
\* merges a chunk with its next one (advancing by two) at the first raw
\* group only.
C30_BoundarySurvivalRule ==
    /\ []((InGroupCall /\ pc = "done") =>
             \A j \in 1..(Len(chunks) - 1) :
                 BoundarySurvives(j) <=>
                     /\ chunks[j + 1].metadata.sentenceCount >= 2
                     /\ ~(j = 1 /\ chunks[1].metadata.sentenceCount = 1))
    /\ [][(InGroupCall /\ pc = "merging" /\ i' = i + 2) => i = 0]_vars

C30_Witness ==
    /\ InGroupCall
    /\ pc = "done"
    /\ NumUnits = 5
    /\ shiftIndices = <<0, 2>>
    /\ Len(chunks) = 3
    /\ Len(result[1]) = 2
    /\ ~BoundarySurvives(1)
    /\ BoundarySurvives(2)

====
